---- MODULE Spec2Model ----
(***************************************************************************)
(* Model of the batch conversion engine of chunker-batch-converter         *)
(* (src/main.py): ConversionThread (the worker that runs one converter     *)
(* process per world), its two reader threads, and the handlers of         *)
(* ChunkerBatchConverter that start, cancel and observe a run.             *)
(*                                                                         *)
(* Threads: the Qt main thread (uipc), one worker per run (pc[r]), two     *)
(* reader threads per spawned process (rd[r][k]).  One action is one       *)
(* atomic step of one thread: the interpreter switches threads between     *)
(* statements, so a step holds at most one access to what another thread   *)
(* reads or writes.  Signals emitted by a worker or a reader are           *)
(* queued connections (emitter and receiver live in different threads):    *)
(* they are appended to the main thread's event queue and handled in       *)
(* order when the main thread runs its event loop.  A message box or a     *)
(* file dialog runs an event loop of its own until it is closed (modal).   *)
(*                                                                         *)
(* Timing: wait(1000) and join(timeout=1.0) are timed waits.  The model    *)
(* has no clock and no bound on how long the scheduler holds a thread: a   *)
(* timed wait returns when the thread it waits for has ended, and may      *)
(* expire wherever that thread is.  A pipe is at end-of-stream when the     *)
(* converter has exited and no descendant it started still holds the pipe. *)
(* A pipe holds a bounded amount of text: a converter that writes more to  *)
(* a pipe whose reader has died blocks in the write.                       *)
(***************************************************************************)
EXTENDS Integers, Sequences, FiniteSets, TLC

\* ---------------------------------------------------------------- bounds
\* Number of ConversionThread objects start_conversion may create.
MaxRuns == 2
\* Number of worlds all runs together may be given; also the number of
\* sub-directories the input directory may list.
MaxWorlds == 2
\* Number of lines the child processes of a run may write, all together.
MaxLines == 2
\* Number of percentage lines the child processes of a run may write where
\* the progress events are examined.
MaxPercentLines == 3
\* Number of ReleasesFetcher threads that may run at a time.
MaxFetchers == 1
\* Number of DownloadThread threads that may run at a time.
MaxDownloads == 1
\* Number of directories the dialog of the output directory may return.
MaxRoots == 2

Runs == 1..MaxRuns
Slots == 1..MaxWorlds
\* The directories the user may choose as the output root; 0 stands for None.
Roots == 1..MaxRoots
Streams == {"stdout", "stderr"}

\* ------------------------------------------------- directories (os.listdir)
\* A directory is its immediate children: name -> absent / file / dir.
EntryNames == {"level.dat", "session.lock", "db", "region"}
EntryKinds == {"absent", "file", "dir"}
Directories == [EntryNames -> EntryKinds]

\* os.listdir(directory)
listdir(d) == {n \in EntryNames : d[n] # "absent"}

\* os.path.isdir(os.path.join(directory, n))
isdir(d, n) == d[n] = "dir"

java_indicators == <<"level.dat", "session.lock">>

\* ChunkerBatchConverter.is_minecraft_world: any one java indicator is enough;
\* otherwise an entry db that is a directory.
is_minecraft_world(d) ==
    \/ \E k \in 1..Len(java_indicators) : java_indicators[k] \in listdir(d)
    \/ ("db" \in listdir(d) /\ isdir(d, "db"))

EmptyDir == [n \in EntryNames |-> "absent"]
JavaWorldDir == [EmptyDir EXCEPT !["level.dat"] = "file", !["session.lock"] = "file"]
BedrockWorldDir == [EmptyDir EXCEPT !["level.dat"] = "file", !["db"] = "dir"]
JunkDir == [EmptyDir EXCEPT !["region"] = "dir"]

\* What a sub-directory of the input directory may hold.
ChildDirs == {JavaWorldDir, BedrockWorldDir, JunkDir}

RECURSIVE SeqsUpTo(_, _)
SeqsUpTo(S, n) ==
    IF n = 0 THEN {<<>>}
    ELSE LET shorter == SeqsUpTo(S, n - 1)
         IN  shorter \cup {Append(q, x) : q \in {p \in shorter : Len(p) = n - 1}, x \in S}

\* The listings start_conversion may find: input_dirs, in os.listdir order.
Listings == SeqsUpTo(ChildDirs, MaxWorlds)

\* start_conversion, lines 751-758: the names (positions in the listing) of
\* the sub-directories that look like a world, in listing order.
RECURSIVE PrepareWorlds(_, _)
PrepareWorlds(listing, from) ==
    IF from > Len(listing) THEN <<>>
    ELSE (IF is_minecraft_world(listing[from]) THEN <<from>> ELSE <<>>)
         \o PrepareWorlds(listing, from + 1)

\* --------------------------------------------------------- output lines
\* A line is a sequence of tokens: " " is white space, "%" the percent sign,
\* "Missing" the word the reader looks for, "0.5", "10", "10.4", "11" and "50"
\* numbers, "text" any other words, "\\xff" bytes the text decoder rejects.
Numbers == {"0.5", "10", "10.4", "11", "50"}
Tokens == {" ", "%", "Missing", "text", "\\xff"} \cup Numbers

LineMissing == <<"Missing", "text">>
LinePaddedMissing == <<" ", "Missing", "text">>
LinePercent == <<"50", "%">>
LineUndecodable == <<"\\xff">>
LineMissingPercent == <<"Missing", "50", "%">>

LinePercentFirst == <<"%", "50">>
LinePercentApart == <<"50", " ", "%">>
LineTextPercent == <<"text", "50", "%">>

\* Lines with a percent sign: after the number, before it, apart from it, and
\* after a number that follows a word.
PercentSignLines == {LinePercent, LinePercentFirst, LinePercentApart, LineTextPercent}

\* The lines a child process may write.
Lines == {LineMissing, LinePaddedMissing, LinePercent, LineUndecodable,
          LineMissingPercent}

\* Bare percentage lines.
PercentLines == {<<"0.5", "%">>, <<"10", "%">>, <<"10.4", "%">>, <<"11", "%">>}

\* str.strip()
RECURSIVE strip(_)
strip(line) ==
    IF line = <<>> THEN <<>>
    ELSE IF Head(line) = " " THEN strip(Tail(line))
    ELSE IF line[Len(line)] = " " THEN strip(SubSeq(line, 1, Len(line) - 1))
    ELSE line

\* tok in line
Contains(line, tok) == \E i \in 1..Len(line) : line[i] = tok

\* line.replace('%', '')
RemovePercent(line) == SelectSeq(line, LAMBDA t : t # "%")

\* line.endswith('%')
EndsWithPercent(line) == line # <<>> /\ line[Len(line)] = "%"

\* float(s) succeeds: s is one number (white space around it is ignored).
IsFloat(s) == Len(strip(s)) = 1 /\ strip(s)[1] \in Numbers

\* float(s), in tenths.
FloatTenths(s) ==
    LET n == strip(s)[1] IN
    IF ~IsFloat(s) THEN 0
    ELSE IF n = "0.5" THEN 5
    ELSE IF n = "10" THEN 100
    ELSE IF n = "10.4" THEN 104
    ELSE IF n = "11" THEN 110
    ELSE 500

\* A reader that reports every change of the percentage.
SignificantChangeAny(percentage, last) == percentage # last

\* abs(percentage - last_percentage) >= 1.0, both in tenths.
SignificantChange(percentage, last) ==
    (IF percentage >= last THEN percentage - last ELSE last - percentage) >= 10

\* int(percentage)
IntOf(tenths) == tenths \div 10

\* pipe.readline raises (UnicodeDecodeError) on this line.
IsUndecodable(line) == Contains(line, "\\xff")

\* ----------------------------------------------------- outcome messages
NoMsg == [text |-> "", code |-> 0, warnings |-> 0, lines |-> <<>>]

\* lines 191-193: "Conversion successful" [+ " with N mapping warnings"]
SuccessMessage(errs) ==
    [text |-> "Conversion successful", code |-> 0, warnings |-> Len(errs), lines |-> <<>>]

\* line 196: the text that stands for the errors when there are none.
UnknownError == <<"Unknown error">>

\* lines 196-197: "Failed with exit code C: " + joined errors or "Unknown error"
FailureMessage(code, errs) ==
    [text |-> "Failed with exit code", code |-> code, warnings |-> 0,
     lines |-> IF errs # <<>> THEN errs ELSE <<UnknownError>>]

\* line 200: str(e)
ExceptionMessage == [text |-> "exception", code |-> 0, warnings |-> 0, lines |-> <<>>]

\* The four signals of ConversionThread (lines 88-91).
progress_updated(r, w, p) ==
    [sig |-> "progress_updated", run |-> r, world |-> w, success |-> FALSE,
     value |-> p, msg |-> NoMsg]
world_completed(r, w, ok, m) ==
    [sig |-> "world_completed", run |-> r, world |-> w, success |-> ok,
     value |-> 0, msg |-> m]
conversion_completed(r, n) ==
    [sig |-> "conversion_completed", run |-> r, world |-> 0, success |-> FALSE,
     value |-> n, msg |-> NoMsg]
log_message(r, w, line) ==
    [sig |-> "log_message", run |-> r, world |-> w, success |-> FALSE,
     value |-> 0, msg |-> [NoMsg EXCEPT !.text = "log", !.lines = <<line>>]]

\* QObject.deleteLater(): the deferred delete of the progress widget of run
\* w, posted at event loop level `level`.
deferred_delete(w, level) ==
    [sig |-> "deferred_delete", run |-> w, world |-> 0, success |-> FALSE,
     value |-> level, msg |-> NoMsg]

\* ------------------------------------------------------------ processes
\* Popen.terminate() on POSIX sends SIGTERM; a process it kills has
\* returncode -15.
TermCode == 0 - 15

\* Exit codes of a child that exits by itself.
OwnExitCodes == {0, 1}

\* A directory under an output root: the root, the name of a world and what
\* follows it.
NoDir == [root |-> 0, name |-> 0, suffix |-> <<>>]

\* st: none / running / exited; code: the exit code; terms: termination
\* signals the process received; calls: terminate() calls on its handle;
\* spawns: Popen calls made for the world; out, fmt: the -o and -f arguments
\* of the command line; blocked: the process is blocked in a write to a pipe
\* that is full and that nobody reads.
NoProc == [st |-> "none", code |-> 0, terms |-> 0, calls |-> 0, spawns |-> 0,
           out |-> NoDir, fmt |-> <<>>, blocked |-> FALSE]
NoPipes == [stdout |-> <<>>, stderr |-> <<>>]

\* str.lower(), token by token.
lowerToken(t) ==
    IF t = "JAVA_1_21_5" THEN "java_1_21_5"
    ELSE IF t = "MyFormat" THEN "myformat"
    ELSE t
lower(s) == [i \in 1..Len(s) |-> lowerToken(s[i])]

\* A name that has the suffix whatever add_suffix says.
output_dir_name_suffixed(name, add_suffix, version) ==
    [name |-> name, suffix |-> <<"_">> \o lower(version)]

\* lines 112-115: the name of the world's directory under the output root,
\* f"{world_name}_{self.target_version.lower()}" or world_name.
output_dir_name(name, add_suffix, version) ==
    [name |-> name, suffix |-> IF add_suffix THEN <<"_">> \o lower(version) ELSE <<>>]

\* line 117: os.path.join(self.output_dir, output_dir_name)
join(path, folder) ==
    [root |-> path, name |-> folder.name, suffix |-> folder.suffix]

\* The folder of the first world that an earlier session of the program has
\* left in the first output root.
OldFolder == join(1, output_dir_name(1, FALSE, <<>>))

\* What the output roots hold when the program starts.
Disks == {{}, {OldFolder}}

\* A run that takes every exit code but 0 for a success.
SucceededInverted(code) == code # 0

\* line 189
Succeeded(code) == code = 0

\* format_version_combo: the listed versions (one stands for all) and the
\* item "Custom", which is the last one (lines 397-406).
ListedVersion == <<"JAVA_1_21_5">>
Custom == <<"Custom">>
VersionItems == {ListedVersion, Custom}

\* What the user may type into custom_format_input.
CustomTexts == {<<>>, <<" ">>, <<"MyFormat">>, <<" ", "MyFormat", " ">>}

\* ------------------------------------------------------------ variables
VARIABLES
    \* ChunkerBatchConverter (main thread)
    uipc,                 \* idle: in an event loop; stop / wait: in cancel_conversion,
                          \* at line 851 / line 852
    modal,                \* the modal windows that are open (message boxes and file
                          \* dialogs), the one on top last
    jar_path,             \* jar_path is set (not None)
    selected_input_dir,   \* selected_input_dir is set
    selected_output_dir,  \* the directory selected_output_dir names, 0: None
    selected_version,     \* selected_version is set
    download_button,      \* download_button.isEnabled()
    fetchers,             \* the ReleasesFetcher threads that run
    download_threads,     \* the DownloadThread threads that run
    convert_button,       \* convert_button.isEnabled()
    controls_enabled,     \* set_controls_enabled
    format_version,       \* format_version_combo.currentText()
    custom_format,        \* custom_format_input.text()
    is_cancelling,
    current_world_index,
    total_worlds,
    status_label,
    progress_widget,      \* hasattr(self, 'progress_widget')
    world_progress,       \* world_progress.value(), -1 before the first run
    overall_progress,     \* overall_progress.value()
    bars_alive,           \* the two QProgressBar objects have not been deleted
    widgets_shown,        \* the runs whose progress widget, with its cancel
                          \* button, is in the layout of the window
    conversion_thread,    \* the run self.conversion_thread refers to, 0: none
    queue,                \* queued signals not yet handled by the main thread
    nruns,                \* ConversionThread objects created so far
    runs_left,            \* ConversionThread objects that may still be created
    worlds_left,          \* worlds that may still be given to a run
    lines_left,           \* lines the child processes may still write
    completions,          \* the calls of on_conversion_completed so far
    \* ConversionThread, one per run
    pc,                   \* the statement of run() the worker is at
    worlds,
    output_dir,           \* the output root the run was constructed with
    target_version,
    add_suffix,
    idx,                  \* position in worlds of the for loop
    world_name,           \* the loop variable of run(), 0 before the first world
    stop_requested,
    current_process,      \* position of the world whose Popen it holds, 0: None
    successful,
    returncode,
    message,              \* the message built for the outcome (lines 191-193, 196)
    emitted,              \* the signals the run has emitted, in order
    \* locals of run shared with read_output, and the reader threads
    last_percentage,
    errors,
    rd,                   \* rd[r][k][s]: none / reading / eof / dead, or the
                          \* statement the reader is at with the line it has
                          \* taken: assign (163) / emit, emit_call (164) /
                          \* append (170) / logging, logging_call (172)
    nread,                \* nread[r][k][s]: lines the reader has taken from the pipe
    rname,                \* rname[r][k][s]: the value of world_name the reader has
                          \* read for the emit it is at, 0 otherwise
    \* environment
    proc,                 \* proc[r][k]: the child process of world k of run r
    written,              \* written[r][k][s]: the lines written to its pipe s
    pipe_held,            \* pipe_held[r][k]: a descendant of that child holds its pipes
    alphabet,             \* the lines a converter may write
    roots,                \* the directories the dialog of the output directory
                          \* may return
    outdirs,              \* the directories that exist under the output roots
    inflightAtStop,       \* the worlds in flight when stop() set the flag
    \* the directory handed to is_minecraft_world, and its answer
    directory,
    detected

\* The three paths of the window.
paths == <<jar_path, selected_input_dir, selected_output_dir>>
\* The releases and the downloads.
releaseVars == <<selected_version, download_button, fetchers, download_threads>>
\* The target format.
formatVars == <<format_version, custom_format>>
\* What a click on the convert button locks.
lockVars == <<convert_button, controls_enabled, status_label>>
\* What the window keeps about its runs.
runUi == <<is_cancelling, current_world_index, total_worlds, progress_widget,
           world_progress, overall_progress, bars_alive, widgets_shown,
           conversion_thread, nruns, runs_left, worlds_left, completions>>
uiVars == <<uipc, modal, paths, releaseVars, formatVars, lockVars, runUi>>
\* The arguments of a ConversionThread.
argVars == <<worlds, output_dir, target_version, add_suffix>>
threadVars == <<pc, argVars, idx, world_name, stop_requested, current_process,
                successful, returncode, message>>
readerVars == <<last_percentage, errors, rd, nread, rname>>
\* What the environment offers: the lines to write, the directories to choose.
choices == <<alphabet, roots>>
envVars == <<proc, written, pipe_held, choices, lines_left, outdirs, inflightAtStop>>
detVars == <<directory, detected>>
\* The runs, their signals and the environment.
runVars == <<queue, threadVars, emitted, readerVars, envVars, detVars>>
vars == <<uiVars, queue, threadVars, emitted, readerVars, envVars, detVars>>

NoReaders == [s \in Streams |-> "none"]
NoneRead == [s \in Streams |-> 0]

\* ChunkerBatchConverter.__init__ (no ConversionThread exists yet), which ends
\* with check_jar_and_fetch_releases (line 253): jar_path is set if a jar was
\* found, the convert and the download button are disabled and the
\* ReleasesFetcher it started runs.
InitProgram ==
    /\ uipc = "idle"
    /\ modal = <<>>
    /\ jar_path \in BOOLEAN
    /\ selected_input_dir = FALSE
    /\ selected_output_dir = 0
    /\ selected_version = FALSE
    /\ download_button = FALSE
    /\ fetchers = 1
    /\ download_threads = 0
    /\ bars_alive = FALSE
    /\ widgets_shown = {}
    /\ convert_button = FALSE
    /\ controls_enabled = TRUE
    /\ format_version = ListedVersion
    /\ custom_format = <<>>
    /\ is_cancelling = FALSE
    /\ current_world_index = 0
    /\ total_worlds = 0
    /\ status_label = "Ready"
    /\ progress_widget = FALSE
    /\ world_progress = 0 - 1
    /\ overall_progress = 0 - 1
    /\ conversion_thread = 0
    /\ queue = <<>>
    /\ nruns = 0
    /\ completions = <<>>
    /\ pc = [r \in Runs |-> "unborn"]
    /\ worlds = [r \in Runs |-> <<>>]
    /\ output_dir = [r \in Runs |-> 0]
    /\ target_version = [r \in Runs |-> <<>>]
    /\ add_suffix = [r \in Runs |-> FALSE]
    /\ idx = [r \in Runs |-> 1]
    /\ world_name = [r \in Runs |-> 0]
    /\ stop_requested = [r \in Runs |-> FALSE]
    /\ current_process = [r \in Runs |-> 0]
    /\ successful = [r \in Runs |-> 0]
    /\ returncode = [r \in Runs |-> 0]
    /\ message = [r \in Runs |-> NoMsg]
    /\ emitted = [r \in Runs |-> <<>>]
    /\ last_percentage = [r \in Runs |-> 0]
    /\ errors = [r \in Runs |-> <<>>]
    /\ rd = [r \in Runs |-> [k \in Slots |-> NoReaders]]
    /\ nread = [r \in Runs |-> [k \in Slots |-> NoneRead]]
    /\ rname = [r \in Runs |-> [k \in Slots |-> NoneRead]]
    /\ proc = [r \in Runs |-> [k \in Slots |-> NoProc]]
    /\ written = [r \in Runs |-> [k \in Slots |-> NoPipes]]
    /\ pipe_held = [r \in Runs |-> [k \in Slots |-> FALSE]]
    /\ inflightAtStop = [r \in Runs |-> {}]

\* QThread.isRunning()
isRunning(r) == pc[r] \notin {"unborn", "done", "crashed"}

\* signal.emit(...) from a thread other than the main thread: the call is
\* posted to the main thread's event queue.
Emit(r, sigs) ==
    /\ emitted' = [emitted EXCEPT ![r] = @ \o sigs]
    /\ queue' = queue \o sigs

\* ===================================================== ConversionThread
\* One action is one statement of run(), or a run of statements that touch
\* nothing another thread reads or writes: the threads of the process are
\* switched between statements, and the main thread, the readers of this and
\* of earlier worlds and the workers of other runs may act in between.

\* A test that finds no directory.
existsNever(path) == FALSE

\* os.path.exists(target_dir)
exists(path) == path \in outdirs

\* line 107: the for statement binds world_name to the next world, or the
\* loop is over (world_name keeps its value).
NextIteration(r) ==
    /\ pc[r] = "loop"
    /\ IF idx[r] > Len(worlds[r])
       THEN /\ pc' = [pc EXCEPT ![r] = "summary"]
            /\ UNCHANGED world_name
       ELSE /\ world_name' = [world_name EXCEPT ![r] = worlds[r][idx[r]]]
            /\ pc' = [pc EXCEPT ![r] = "stop_test"]
    /\ UNCHANGED <<uiVars, queue, argVars, idx, stop_requested, current_process,
                   successful, returncode, message, emitted, readerVars, envVars,
                   detVars>>

\* lines 108-109: a set stop_requested ends the loop.
TestStop(r) ==
    /\ pc[r] = "stop_test"
    /\ pc' = [pc EXCEPT ![r] = IF stop_requested[r] THEN "summary" ELSE "target_dir"]
    /\ UNCHANGED <<uiVars, queue, argVars, idx, world_name, stop_requested,
                   current_process, successful, returncode, message, emitted,
                   readerVars, envVars, detVars>>

\* lines 112-117: the directory of the world the loop is at, under the output
\* root of the run.
target_dir(r) ==
    join(output_dir[r], output_dir_name(world_name[r], add_suffix[r], target_version[r]))

\* lines 112-120: the directory of the world under the output root is named
\* and looked for.
TestTargetDir(r) ==
    /\ pc[r] = "target_dir"
    /\ pc' = [pc EXCEPT ![r] = IF exists(target_dir(r)) THEN "popen" ELSE "makedirs"]
    /\ UNCHANGED <<uiVars, queue, argVars, idx, world_name, stop_requested,
                   current_process, successful, returncode, message, emitted,
                   readerVars, envVars, detVars>>

\* line 121: os.makedirs(target_dir) creates the directory, or raises an
\* OSError (it raises one for a directory that is there, too).  The statement
\* is outside the try block: the exception leaves run().
MakeTargetDir(r) ==
    /\ pc[r] = "makedirs"
    /\ \/ /\ target_dir(r) \notin outdirs
          /\ outdirs' = outdirs \cup {target_dir(r)}
          /\ pc' = [pc EXCEPT ![r] = "popen"]
       \/ /\ pc' = [pc EXCEPT ![r] = "crashed"]
          /\ UNCHANGED outdirs
    /\ UNCHANGED <<uiVars, queue, argVars, idx, world_name, stop_requested,
                   current_process, successful, returncode, message, emitted,
                   readerVars, proc, written, pipe_held, choices, lines_left,
                   inflightAtStop, detVars>>

\* A loop that takes the same world again.
NextWorldAgain(i) == i

\* The position the for loop moves to after a world.
NextWorld(i) == i + 1

\* lines 124-146, the call subprocess.Popen(cmd, ...): the child runs, with
\* two fresh pipes; cmd holds -o target_dir and -f self.target_version.
SpawnProcess(r) ==
    /\ pc[r] = "popen"
    /\ proc' = [proc EXCEPT ![r][idx[r]] =
                   [NoProc EXCEPT !.st = "running",
                                  !.spawns = proc[r][idx[r]].spawns + 1,
                                  !.out = target_dir(r),
                                  !.fmt = target_version[r]]]
    /\ written' = [written EXCEPT ![r][idx[r]] = NoPipes]
    /\ pc' = [pc EXCEPT ![r] = "assign"]
    /\ UNCHANGED <<uiVars, queue, argVars, idx, world_name, stop_requested,
                   current_process, successful, returncode, message, emitted,
                   readerVars, pipe_held, choices, lines_left, outdirs,
                   inflightAtStop, detVars>>

\* lines 146 and 199-200: Popen raises (no such executable, permission
\* denied); the handler reports the world as failed and the loop goes on.
SpawnFailure(r) ==
    /\ pc[r] = "popen"
    /\ Emit(r, <<world_completed(r, world_name[r], FALSE, ExceptionMessage)>>)
    /\ idx' = [idx EXCEPT ![r] = NextWorld(@)]
    /\ pc' = [pc EXCEPT ![r] = "loop"]
    /\ UNCHANGED <<uiVars, argVars, world_name, stop_requested, current_process,
                   successful, returncode, message, readerVars, envVars, detVars>>

\* line 146, the assignment: the handle is stored in self.current_process.
StoreProcess(r) ==
    /\ pc[r] = "assign"
    /\ current_process' = [current_process EXCEPT ![r] = idx[r]]
    /\ pc' = [pc EXCEPT ![r] = "reset_percentage"]
    /\ UNCHANGED <<uiVars, queue, argVars, idx, world_name, stop_requested,
                   successful, returncode, message, emitted, readerVars, envVars,
                   detVars>>

\* line 149: last_percentage = 0.  The variable is the one the readers of
\* the earlier worlds of the run refer to.
ResetPercentage(r) ==
    /\ pc[r] = "reset_percentage"
    /\ last_percentage' = [last_percentage EXCEPT ![r] = 0]
    /\ pc' = [pc EXCEPT ![r] = "reset_errors"]
    /\ UNCHANGED <<uiVars, queue, argVars, idx, world_name, stop_requested,
                   current_process, successful, returncode, message, emitted,
                   errors, rd, nread, rname, envVars, detVars>>

\* line 150: errors = [].  The variable is the one the readers of the
\* earlier worlds of the run refer to: they append to the new list from now on.
ResetErrors(r) ==
    /\ pc[r] = "reset_errors"
    /\ errors' = [errors EXCEPT ![r] = <<>>]
    /\ pc' = [pc EXCEPT ![r] = "start_stdout"]
    /\ UNCHANGED <<uiVars, queue, argVars, idx, world_name, stop_requested,
                   current_process, successful, returncode, message, emitted,
                   last_percentage, rd, nread, rname, envVars, detVars>>

\* lines 153-180: read_output is defined, the two threads are created, and
\* the reader of stream s is started (line 179 stdout, line 180 stderr).
StartReader(r, s) ==
    /\ pc[r] = (IF s = "stdout" THEN "start_stdout" ELSE "start_stderr")
    /\ rd' = [rd EXCEPT ![r][idx[r]][s] = "reading"]
    /\ nread' = [nread EXCEPT ![r][idx[r]][s] = 0]
    /\ pc' = [pc EXCEPT ![r] = IF s = "stdout" THEN "start_stderr" ELSE "wait"]
    /\ UNCHANGED <<uiVars, queue, argVars, idx, world_name, stop_requested,
                   current_process, successful, returncode, message, emitted,
                   last_percentage, errors, rname, envVars, detVars>>

\* line 183: current_process.wait() returns once the child has exited.
WaitProcess(r) ==
    /\ pc[r] = "wait"
    /\ proc[r][idx[r]].st = "exited"
    /\ returncode' = [returncode EXCEPT ![r] = proc[r][idx[r]].code]
    /\ pc' = [pc EXCEPT ![r] = "join"]
    /\ UNCHANGED <<uiVars, queue, argVars, idx, world_name, stop_requested,
                   current_process, successful, message, emitted, readerVars, envVars,
                   detVars>>

\* The statements of the readers: a reader is at readline, or at one of the
\* statements that follow it with the line it has taken.
ReaderAtWork == {"reading", "assign", "emit", "emit_call", "append", "logging",
                 "logging_call"}

\* lines 186-187, thread.join(timeout=1.0) on the reader of stream s of world
\* k returns: the reader has ended, or the second has passed with the reader
\* wherever it is.
JoinReturns(r, k, s) ==
    \/ rd[r][k][s] \in {"eof", "dead"}
    \/ rd[r][k][s] \in ReaderAtWork

\* lines 186-187: the two joins return.  A join changes nothing, whether the
\* reader has ended or the time has run out; what the other threads do
\* between the two joins they may as well do before the first or after the
\* second.
JoinReaders(r) ==
    /\ pc[r] = "join"
    /\ \A s \in Streams : JoinReturns(r, idx[r], s)
    /\ pc' = [pc EXCEPT ![r] = "count"]
    /\ UNCHANGED <<uiVars, queue, argVars, idx, world_name, stop_requested,
                   current_process, successful, returncode, message, emitted,
                   readerVars, envVars, detVars>>

\* lines 189-190: if returncode == 0: successful += 1
CountSuccess(r) ==
    /\ pc[r] = "count"
    /\ successful' = [successful EXCEPT ![r] =
                         IF Succeeded(returncode[r]) THEN @ + 1 ELSE @]
    /\ pc' = [pc EXCEPT ![r] = "message"]
    /\ UNCHANGED <<uiVars, queue, argVars, idx, world_name, stop_requested,
                   current_process, returncode, message, emitted, readerVars,
                   envVars, detVars>>

\* lines 191-193 and 196: the message of the outcome.
Message(code, errs) ==
    IF Succeeded(code) THEN SuccessMessage(errs) ELSE FailureMessage(code, errs)

\* lines 191-193 and 196: the message is built from the list errors refers
\* to.  The list is tested (if errors) and then measured or joined; it only
\* grows in between, and a list that is not empty at the test is taken as it
\* is when it is measured or joined: the message is the one of the list at one
\* moment.
BuildMessage(r) ==
    /\ pc[r] = "message"
    /\ message' = [message EXCEPT ![r] = Message(returncode[r], errors[r])]
    /\ pc' = [pc EXCEPT ![r] = "report"]
    /\ UNCHANGED <<uiVars, queue, argVars, idx, world_name, stop_requested,
                   current_process, successful, returncode, emitted, readerVars,
                   envVars, detVars>>

\* lines 194 and 197: world_completed is emitted with the message built
\* before, and the iteration is over.
ReportWorld(r) ==
    /\ pc[r] = "report"
    /\ Emit(r, <<world_completed(r, world_name[r], Succeeded(returncode[r]),
                                 message[r])>>)
    /\ message' = [message EXCEPT ![r] = NoMsg]
    /\ idx' = [idx EXCEPT ![r] = NextWorld(@)]
    /\ pc' = [pc EXCEPT ![r] = "loop"]
    /\ UNCHANGED <<uiVars, argVars, world_name, stop_requested, current_process,
                   successful, returncode, readerVars, envVars, detVars>>

\* A summary that carries the number of worlds the loop has been through.
EmitSummaryAttempted(r) ==
    /\ pc[r] = "summary"
    /\ Emit(r, <<conversion_completed(r, idx[r] - 1)>>)
    /\ pc' = [pc EXCEPT ![r] = "return"]
    /\ UNCHANGED <<uiVars, argVars, idx, world_name, stop_requested,
                   current_process, successful, returncode, message, readerVars,
                   envVars, detVars>>

\* line 202: conversion_completed is emitted; the emit returns and run() has
\* not returned yet.
EmitSummary(r) ==
    /\ pc[r] = "summary"
    /\ Emit(r, <<conversion_completed(r, successful[r])>>)
    /\ pc' = [pc EXCEPT ![r] = "return"]
    /\ UNCHANGED <<uiVars, argVars, idx, world_name, stop_requested,
                   current_process, successful, returncode, message, readerVars,
                   envVars, detVars>>

\* After line 202 run() returns and the thread has finished: isRunning() is
\* False from here on.
RunReturns(r) ==
    /\ pc[r] = "return"
    /\ pc' = [pc EXCEPT ![r] = "done"]
    /\ UNCHANGED <<uiVars, queue, argVars, idx, world_name, stop_requested,
                   current_process, successful, returncode, message, emitted,
                   readerVars, envVars, detVars>>

\* ---------------------------------------------------------- read_output
\* lines 159-161: the line is taken for a percentage.
IsPercentage(line, is_error) ==
    Contains(line, "%") /\ ~is_error /\ IsFloat(RemovePercent(line))

\* line 168: the line goes to the log.
IsLogged(line, is_error) == is_error \/ ~EndsWithPercent(line)

\* lines 168-170: the line is kept for the outcome message.
IsRecorded(line, is_error) == IsLogged(line, is_error) /\ Contains(line, "Missing")

\* The statement the reader goes to after lines 159-166, with the line it
\* has taken: line 170, line 172, or readline again.
AfterProgress(line, is_error) ==
    IF ~IsLogged(line, is_error) THEN "reading"
    ELSE IF IsRecorded(line, is_error) THEN "append"
    ELSE "logging"

\* lines 155-172, one statement of read_output(pipe, is_error) in the reader
\* of stream s of world k.  world_name, last_percentage and errors are the
\* variables of run() the closure refers to, with the values they have when
\* the statement that uses them is executed; the other threads may act
\* between two statements.  A step is one access to them or one emit: the
\* test of line 162, the assignment of line 163, the read of world_name and
\* then the emit of line 164, the append of line 170, the read of world_name
\* and then the emit of line 172; readline (line 155) and what is local to
\* the reader go with the first access that follows.  The pipe is a text
\* stream: readline decodes what has arrived as a whole, so the
\* UnicodeDecodeError of a line is raised at that line or at a line written
\* before it that has not been read yet, which is then never handled.
ReadLine(r, k, s) ==
    LET is_error == (s = "stderr")
        taken == strip(written[r][k][s][nread[r][k][s]])
    IN
    /\ CASE rd[r][k][s] = "assign" ->
              /\ last_percentage' = [last_percentage EXCEPT ![r] =
                     FloatTenths(RemovePercent(taken))]
              /\ rd' = [rd EXCEPT ![r][k][s] = "emit"]
              /\ UNCHANGED <<nread, rname, errors, emitted, queue>>
         [] rd[r][k][s] = "emit" ->
              /\ rname' = [rname EXCEPT ![r][k][s] = world_name[r]]
              /\ rd' = [rd EXCEPT ![r][k][s] = "emit_call"]
              /\ UNCHANGED <<nread, last_percentage, errors, emitted, queue>>
         [] rd[r][k][s] = "emit_call" ->
              /\ Emit(r, <<progress_updated(r, rname[r][k][s],
                                            IntOf(FloatTenths(RemovePercent(taken))))>>)
              /\ rname' = [rname EXCEPT ![r][k][s] = 0]
              /\ rd' = [rd EXCEPT ![r][k][s] = AfterProgress(taken, is_error)]
              /\ UNCHANGED <<nread, last_percentage, errors>>
         [] rd[r][k][s] = "append" ->
              /\ errors' = [errors EXCEPT ![r] = Append(@, taken)]
              /\ rd' = [rd EXCEPT ![r][k][s] = "logging"]
              /\ UNCHANGED <<nread, rname, last_percentage, emitted, queue>>
         [] rd[r][k][s] = "logging" ->
              /\ rname' = [rname EXCEPT ![r][k][s] = world_name[r]]
              /\ rd' = [rd EXCEPT ![r][k][s] = "logging_call"]
              /\ UNCHANGED <<nread, last_percentage, errors, emitted, queue>>
         [] rd[r][k][s] = "logging_call" ->
              /\ Emit(r, <<log_message(r, rname[r][k][s], taken)>>)
              /\ rname' = [rname EXCEPT ![r][k][s] = 0]
              /\ rd' = [rd EXCEPT ![r][k][s] = "reading"]
              /\ UNCHANGED <<nread, last_percentage, errors>>
         [] rd[r][k][s] = "reading" ->
              /\ nread[r][k][s] < Len(written[r][k][s])
              /\ LET raw == written[r][k][s][nread[r][k][s] + 1]
                     line == strip(raw)
                 IN  \/ \E j \in (nread[r][k][s] + 1)..Len(written[r][k][s]) :
                           /\ IsUndecodable(written[r][k][s][j])
                           /\ nread' = [nread EXCEPT ![r][k][s] = j]
                           /\ rd' = [rd EXCEPT ![r][k][s] = "dead"]
                           /\ UNCHANGED <<rname, last_percentage, errors, emitted,
                                          queue>>
                     \/ /\ ~IsUndecodable(raw)
                        /\ nread' = [nread EXCEPT ![r][k][s] = @ + 1]
                        /\ IF line = <<>>
                           THEN UNCHANGED <<rd, rname, last_percentage, errors,
                                            emitted, queue>>
                           ELSE IF IsPercentage(line, is_error)
                           THEN \* line 162
                                /\ rd' = [rd EXCEPT ![r][k][s] =
                                       IF SignificantChange(
                                              FloatTenths(RemovePercent(line)),
                                              last_percentage[r])
                                       THEN "assign"
                                       ELSE AfterProgress(line, is_error)]
                                /\ UNCHANGED <<rname, last_percentage, errors,
                                               emitted, queue>>
                           ELSE IF IsRecorded(line, is_error)
                           THEN \* line 170
                                /\ errors' = [errors EXCEPT ![r] = Append(@, line)]
                                /\ rd' = [rd EXCEPT ![r][k][s] = "logging"]
                                /\ UNCHANGED <<rname, last_percentage, emitted,
                                               queue>>
                           ELSE IF IsLogged(line, is_error)
                           THEN \* line 172, the read of world_name
                                /\ rname' = [rname EXCEPT ![r][k][s] = world_name[r]]
                                /\ rd' = [rd EXCEPT ![r][k][s] = "logging_call"]
                                /\ UNCHANGED <<last_percentage, errors, emitted,
                                               queue>>
                           ELSE UNCHANGED <<rd, rname, last_percentage, errors,
                                            emitted, queue>>
         [] OTHER -> FALSE
    /\ UNCHANGED <<uiVars, threadVars, envVars, detVars>>

\* line 155: readline returns '' (the child has exited, no descendant holds
\* the pipe and everything written has been read); the reader thread ends.
ReadEOF(r, k, s) ==
    /\ rd[r][k][s] = "reading"
    /\ proc[r][k].st = "exited"
    /\ ~pipe_held[r][k]
    /\ nread[r][k][s] = Len(written[r][k][s])
    /\ rd' = [rd EXCEPT ![r][k][s] = "eof"]
    /\ UNCHANGED <<uiVars, queue, threadVars, emitted, last_percentage, errors, nread,
                   rname, envVars, detVars>>

\* ------------------------------------------------------ the child process
\* The converter, or a descendant that holds its pipes, writes a line to one
\* of the streams.
ProcessWrite(r, k, s) ==
    /\ (proc[r][k].st = "running" /\ ~proc[r][k].blocked) \/ pipe_held[r][k]
    /\ lines_left > 0
    /\ lines_left' = lines_left - 1
    /\ \E line \in alphabet : written' = [written EXCEPT ![r][k][s] = Append(@, line)]
    /\ UNCHANGED <<uiVars, queue, threadVars, emitted, readerVars, proc, pipe_held,
                   choices, outdirs, inflightAtStop, detVars>>

\* The converter exits: by itself, unless it is blocked in a write, or killed
\* by a termination signal.
ProcessExit(r, k) ==
    /\ proc[r][k].st = "running"
    /\ \E code \in (IF proc[r][k].blocked THEN {} ELSE OwnExitCodes)
                    \cup (IF proc[r][k].terms > 0 THEN {TermCode} ELSE {}) :
          proc' = [proc EXCEPT ![r][k].st = "exited", ![r][k].code = code,
                               ![r][k].blocked = FALSE]
    /\ UNCHANGED <<uiVars, queue, threadVars, emitted, readerVars, written, pipe_held,
                   choices, lines_left, outdirs, inflightAtStop, detVars>>

\* The converter writes more to stream s than the pipe holds after the reader
\* of s has died (line 155: the exception of readline ends the thread, the
\* pipe stays open and nothing reads it any more): the write blocks.
ProcessStall(r, k, s) ==
    /\ proc[r][k].st = "running"
    /\ ~proc[r][k].blocked
    /\ rd[r][k][s] = "dead"
    /\ proc' = [proc EXCEPT ![r][k].blocked = TRUE]
    /\ UNCHANGED <<uiVars, queue, threadVars, emitted, readerVars, written, pipe_held,
                   choices, lines_left, outdirs, inflightAtStop, detVars>>

\* The converter starts a process of its own, which inherits the two pipes.
DescendantStart(r, k) ==
    /\ proc[r][k].st = "running"
    /\ ~pipe_held[r][k]
    /\ pipe_held' = [pipe_held EXCEPT ![r][k] = TRUE]
    /\ UNCHANGED <<uiVars, queue, threadVars, emitted, readerVars, proc, written,
                   choices, lines_left, outdirs, inflightAtStop, detVars>>

\* The descendant exits and the pipes it held are closed.
DescendantExit(r, k) ==
    /\ pipe_held[r][k]
    /\ pipe_held' = [pipe_held EXCEPT ![r][k] = FALSE]
    /\ UNCHANGED <<uiVars, queue, threadVars, emitted, readerVars, proc, written,
                   choices, lines_left, outdirs, inflightAtStop, detVars>>

\* ================================================ ChunkerBatchConverter
\* A message box (QMessageBox.warning, critical, information, question) and
\* a file dialog (QFileDialog.getOpenFileName, getExistingDirectory) are
\* modal: the call returns when the user closes the window, and until then
\* it runs an event loop of its own, inside the one it was called from, that
\* delivers the queued signals; the user cannot act on the main window or on
\* a modal window below.  A slot called from such a loop may open a box of its
\* own, on top.

\* The modal window on top, and the others.
Top(stack) == stack[Len(stack)]
Pop(stack) == SubSeq(stack, 1, Len(stack) - 1)

\* The main thread runs an event loop: the application's, or that of the
\* modal window on top.
InEventLoop == uipc = "idle"

\* No modal window is open: the user can act on the main window.
AtWindow == uipc = "idle" /\ modal = <<>>

\* The modal window kind is on top: the user can answer it.
OnTop(kind) == uipc = "idle" /\ modal # <<>> /\ Top(modal) = kind

\* lines 1046-1062, set_controls_enabled(enabled), as far as the state goes.
set_controls_enabled(enabled) ==
    /\ controls_enabled' = enabled
    /\ download_button' = (enabled /\ selected_version)

\* lines 600-607, a click on "Browse for JAR": the file dialog opens.
browse_for_jar ==
    /\ AtWindow
    /\ controls_enabled
    /\ modal' = <<"jar file">>
    /\ UNCHANGED <<uipc, paths, releaseVars, formatVars, lockVars, runUi, runVars>>

\* lines 602-613: the file dialog returns, with a file or without one.
browse_for_jar_closed ==
    /\ OnTop("jar file")
    /\ modal' = Pop(modal)
    /\ \E jar_file \in BOOLEAN :
          IF jar_file
          THEN /\ jar_path' = TRUE
               /\ convert_button' = (selected_input_dir /\ selected_output_dir # 0)
          ELSE UNCHANGED <<jar_path, convert_button>>
    /\ UNCHANGED <<uipc, selected_input_dir, selected_output_dir, releaseVars,
                   formatVars, controls_enabled, status_label, runUi, runVars>>

\* lines 687-689, a click on the Browse button of the input directory.
browse_input_dir ==
    /\ AtWindow
    /\ controls_enabled
    /\ modal' = <<"input directory">>
    /\ UNCHANGED <<uipc, paths, releaseVars, formatVars, lockVars, runUi, runVars>>

\* lines 689-694: the dialog returns, with a directory or without one.
browse_input_dir_closed ==
    /\ OnTop("input directory")
    /\ modal' = Pop(modal)
    /\ \E chosen \in BOOLEAN :
          IF chosen
          THEN /\ selected_input_dir' = TRUE
               /\ convert_button' = (jar_path /\ selected_output_dir # 0)
          ELSE UNCHANGED <<selected_input_dir, convert_button>>
    /\ UNCHANGED <<uipc, jar_path, selected_output_dir, releaseVars, formatVars,
                   controls_enabled, status_label, runUi, runVars>>

\* lines 696-698, a click on the Browse button of the output directory.
browse_output_dir ==
    /\ AtWindow
    /\ controls_enabled
    /\ modal' = <<"output directory">>
    /\ UNCHANGED <<uipc, paths, releaseVars, formatVars, lockVars, runUi, runVars>>

\* lines 698-703: the dialog returns, with a directory (it becomes the output
\* root, with whatever it holds) or without one (0).
browse_output_dir_closed ==
    /\ OnTop("output directory")
    /\ modal' = Pop(modal)
    /\ \E chosen \in {0} \cup roots :
          IF chosen # 0
          THEN /\ selected_output_dir' = chosen
               /\ convert_button' = (jar_path /\ selected_input_dir)
          ELSE UNCHANGED <<selected_output_dir, convert_button>>
    /\ UNCHANGED <<uipc, jar_path, selected_input_dir, releaseVars, formatVars,
                   controls_enabled, status_label, runUi, runVars>>

\* lines 615-622, a click on "Select Java": the file dialog opens.
browse_for_java ==
    /\ AtWindow
    /\ controls_enabled
    /\ modal' = <<"java file">>
    /\ UNCHANGED <<uipc, paths, releaseVars, formatVars, lockVars, runUi, runVars>>

\* lines 617-685: the file dialog returns.  With a file,
\* check_specific_java_version runs it and opens a message box on every
\* path (lines 660, 673, 677, 683).  The path chosen is no part of the state:
\* check_java_version gives each of its answers with or without one.
browse_for_java_closed ==
    /\ OnTop("java file")
    /\ \E java_path \in BOOLEAN :
          modal' = IF java_path THEN Append(Pop(modal), "java checked")
                   ELSE Pop(modal)
    /\ UNCHANGED <<uipc, paths, releaseVars, formatVars, lockVars, runUi, runVars>>

\* lines 416-464, a click on the refresh button: the download and the
\* convert button are disabled, the convert button is enabled again if a
\* chunker-cli-*.jar lies in the working directory (found) and both
\* directories are selected, and fetch_releases starts a ReleasesFetcher.
check_jar_and_fetch_releases ==
    /\ AtWindow
    /\ controls_enabled
    /\ fetchers < MaxFetchers
    /\ \E found \in BOOLEAN :
          /\ jar_path' = (jar_path \/ found)
          /\ convert_button' = (found /\ selected_input_dir /\ selected_output_dir # 0)
    /\ download_button' = FALSE
    /\ fetchers' = fetchers + 1
    /\ UNCHANGED <<uipc, modal, selected_input_dir, selected_output_dir,
                   selected_version, download_threads, formatVars, controls_enabled,
                   status_label, runUi, runVars>>

\* lines 466-485, the slot of ReleasesFetcher.releases_fetched (lines 26-46),
\* with a list of releases that is empty or not: of a list that is not empty
\* the first is selected (addItem, line 476, changes the current index, and
\* on_version_selected is its slot) and the download button is enabled.
on_releases_fetched ==
    /\ InEventLoop
    /\ fetchers > 0
    /\ fetchers' = fetchers - 1
    /\ \E releases \in BOOLEAN :
          IF releases
          THEN selected_version' = TRUE /\ download_button' = TRUE
          ELSE UNCHANGED <<selected_version, download_button>>
    /\ UNCHANGED <<uipc, modal, paths, download_threads, formatVars, lockVars, runUi,
                   runVars>>

\* lines 487-490, the slot of ReleasesFetcher.error_occurred (lines 27, 48):
\* QMessageBox.critical opens.
on_fetch_error ==
    /\ InEventLoop
    /\ fetchers > 0
    /\ fetchers' = fetchers - 1
    /\ modal' = Append(modal, "fetch error")
    /\ UNCHANGED <<uipc, paths, selected_version, download_button, download_threads,
                   formatVars, lockVars, runUi, runVars>>

\* lines 534-547, a click on the download button: a warning opens if no
\* version is selected, the question 'Confirm Download' otherwise.
download_selected_version ==
    /\ AtWindow
    /\ download_button
    /\ download_threads < MaxDownloads
    /\ modal' = <<IF selected_version THEN "confirm download"
                  ELSE "no version selected">>
    /\ UNCHANGED <<uipc, paths, releaseVars, formatVars, lockVars, runUi, runVars>>

\* line 549, the answer No.
download_declined ==
    /\ OnTop("confirm download")
    /\ modal' = Pop(modal)
    /\ UNCHANGED <<uipc, paths, releaseVars, formatVars, lockVars, runUi, runVars>>

\* lines 549-574, the answer Yes: the download button is disabled and a
\* DownloadThread is started.
download_confirmed ==
    /\ OnTop("confirm download")
    /\ modal' = Pop(modal)
    /\ download_button' = FALSE
    /\ download_threads' = download_threads + 1
    /\ UNCHANGED <<uipc, paths, selected_version, fetchers, formatVars, lockVars,
                   runUi, runVars>>

\* lines 580-590, the slot of DownloadThread.download_complete: the jar is
\* there, the download button is enabled, and the convert button is enabled
\* if both directories are selected and disabled otherwise.
download_finished ==
    /\ InEventLoop
    /\ download_threads > 0
    /\ download_threads' = download_threads - 1
    /\ jar_path' = TRUE
    /\ download_button' = TRUE
    /\ convert_button' = (selected_input_dir /\ selected_output_dir # 0)
    /\ UNCHANGED <<uipc, modal, selected_input_dir, selected_output_dir,
                   selected_version, fetchers, formatVars, controls_enabled,
                   status_label, runUi, runVars>>

\* lines 592-597, the slot of DownloadThread.download_error: the download
\* has ended without a jar; the download button is enabled and
\* QMessageBox.critical opens.
download_error ==
    /\ InEventLoop
    /\ download_threads > 0
    /\ download_threads' = download_threads - 1
    /\ download_button' = TRUE
    /\ modal' = Append(modal, "download error")
    /\ UNCHANGED <<uipc, paths, selected_version, fetchers, formatVars, lockVars,
                   runUi, runVars>>

\* The message boxes after which the handler that opened them changes
\* nothing of the state: lines 490-491, 537-538, 597-598, and 660-685.
PlainBoxes == {"fetch error", "no version selected", "download error", "java checked"}

\* The user closes one of them.
message_box_closed ==
    /\ \E kind \in PlainBoxes : OnTop(kind)
    /\ modal' = Pop(modal)
    /\ UNCHANGED <<uipc, paths, releaseVars, formatVars, lockVars, runUi, runVars>>

\* lines 393-410, the user picks another item of format_type_combo: the
\* version list is filled anew, a listed version is selected and the custom
\* field is cleared.
update_format_versions ==
    /\ AtWindow
    /\ controls_enabled
    /\ format_version' = ListedVersion
    /\ custom_format' = <<>>
    /\ UNCHANGED <<uipc, modal, paths, releaseVars, lockVars, runUi, runVars>>

\* The user picks an item of format_version_combo.
select_format_version ==
    /\ AtWindow
    /\ controls_enabled
    /\ \E v \in VersionItems : v # format_version /\ format_version' = v
    /\ UNCHANGED <<uipc, modal, paths, releaseVars, custom_format, lockVars, runUi,
                   runVars>>

\* The user types into custom_format_input, which is enabled while the item
\* "Custom" is selected (lines 412-414, 1062).
edit_custom_format ==
    /\ AtWindow
    /\ controls_enabled
    /\ format_version = Custom
    /\ \E t \in CustomTexts : t # custom_format /\ custom_format' = t
    /\ UNCHANGED <<uipc, modal, paths, releaseVars, format_version, lockVars, runUi,
                   runVars>>

\* The text of the custom field as it was typed.
chosen_version_raw ==
    IF format_version = Custom THEN custom_format ELSE format_version

\* lines 713-716: the format token start_conversion hands to the run.
chosen_version ==
    IF format_version = Custom THEN strip(custom_format) ELSE format_version

\* line 707: the jar and both directories are set.
PathsSelected == jar_path /\ selected_input_dir /\ selected_output_dir # 0

\* A window that takes every list of worlds.
NoWorldsNever(ws) == FALSE

\* line 760: if not worlds
NoWorlds(ws) == ws = <<>>

\* The message boxes of start_conversion and of check_java_version.
StartBoxes == {"select paths", "enter a custom format version",
               "select a format version", "java", "java unknown",
               "no directories", "no valid worlds"}

\* QMessageBox.warning(...) opens; nothing else has changed.
Warning(kind) ==
    /\ modal' = <<kind>>
    /\ UNCHANGED <<uipc, paths, releaseVars, formatVars, lockVars, runUi, runVars>>

\* lines 729-736, then QMessageBox.warning(...) opens: the controls have been
\* locked for the conversion.
LockedWarning(kind) ==
    /\ set_controls_enabled(FALSE)
    /\ status_label' = "Converting..."
    /\ convert_button' = FALSE
    /\ modal' = <<kind>>
    /\ UNCHANGED <<uipc, paths, selected_version, fetchers, download_threads,
                   formatVars, runUi, runVars>>

\* The answers of check_java_version (lines 933-1038): ok, True without a
\* message box; refused, a message box and then False (no java, or one that
\* is too old); unknown, a message box and then True (no version string in
\* the output of java -version, or the check itself failed).
JavaAnswers == {"ok", "refused", "unknown"}

\* lines 729-835, start_conversion from the point where check_java_version
\* has returned True: the controls are locked, the input directory is listed
\* (listing) and a warning opens, or the run is created and started.
StartRun(listing) ==
    LET ws == PrepareWorlds(listing, 1)
        r == nruns + 1
    IN
    /\ Len(ws) <= worlds_left
    /\ IF listing = <<>> THEN LockedWarning("no directories")
       ELSE IF NoWorlds(ws) THEN LockedWarning("no valid worlds")
       ELSE \* lines 768-835
            /\ modal' = <<>>
            /\ set_controls_enabled(FALSE)
            /\ convert_button' = FALSE
            /\ status_label' = "Converting..."
            /\ progress_widget' = TRUE
            /\ world_progress' = 0
            /\ overall_progress' = 0
            /\ bars_alive' = TRUE
            /\ widgets_shown' = widgets_shown \cup {r}
            /\ conversion_thread' = r
            /\ nruns' = r
            /\ runs_left' = runs_left - 1
            /\ worlds_left' = worlds_left - Len(ws)
            /\ current_world_index' = 0
            /\ total_worlds' = Len(ws)
            /\ worlds' = [worlds EXCEPT ![r] = ws]
            /\ output_dir' = [output_dir EXCEPT ![r] = selected_output_dir]
            /\ target_version' = [target_version EXCEPT ![r] = chosen_version]
            /\ add_suffix' = [add_suffix EXCEPT ![r] = FALSE]
            /\ pc' = [pc EXCEPT ![r] = "loop"]
            /\ UNCHANGED <<uipc, paths, selected_version, fetchers, download_threads,
                           formatVars, is_cancelling, completions, queue, idx,
                           world_name, stop_requested, current_process, successful,
                           returncode, message, emitted, readerVars, envVars, detVars>>

\* lines 705-835, a click on the convert button.  java is the answer of
\* check_java_version, listing the sub-directories of the input directory.
start_conversion ==
    /\ AtWindow
    /\ convert_button
    /\ runs_left > 0
    /\ \E java \in JavaAnswers, listing \in Listings :
         IF ~PathsSelected THEN Warning("select paths")
         ELSE IF format_version = Custom /\ chosen_version = <<>>
         THEN Warning("enter a custom format version")
         ELSE IF chosen_version = <<>> THEN Warning("select a format version")
         ELSE IF java = "refused" THEN Warning("java")
         ELSE IF java = "unknown" THEN Warning("java unknown")
         ELSE StartRun(listing)

\* A message box of start_conversion is closed.  After the one of a
\* check_java_version that returns True (lines 1005-1011, 1033-1038)
\* start_conversion goes on at line 729; after the two warnings about the
\* input directory it unlocks the controls and returns (lines 745-748,
\* 762-766); after the others it returns.
warning_closed ==
    /\ \E kind \in StartBoxes : OnTop(kind)
    /\ IF Top(modal) = "java unknown"
       THEN \E listing \in Listings : StartRun(listing)
       ELSE /\ modal' = Pop(modal)
            /\ IF Top(modal) \in {"no directories", "no valid worlds"}
               THEN /\ convert_button' = TRUE
                    /\ status_label' = IF Top(modal) = "no directories"
                                       THEN "No worlds found"
                                       ELSE "No valid worlds found"
                    /\ set_controls_enabled(TRUE)
               ELSE UNCHANGED <<lockVars, download_button>>
            /\ UNCHANGED <<uipc, paths, selected_version, fetchers, download_threads,
                           formatVars, runUi, runVars>>

\* lines 837-846, a click on the cancel button of a progress widget that is
\* in the window (start_conversion removes none, on_conversion_completed the
\* one self.progress_widget refers to): the question dialog opens if the
\* thread self.conversion_thread refers to is running.
cancel_conversion ==
    /\ AtWindow
    /\ widgets_shown # {}
    /\ modal' = IF conversion_thread # 0 /\ isRunning(conversion_thread)
                THEN <<"confirm cancellation">> ELSE <<>>
    /\ UNCHANGED <<uipc, paths, releaseVars, formatVars, lockVars, runUi, runVars>>

\* line 848, the answer No.
cancel_declined ==
    /\ OnTop("confirm cancellation")
    /\ modal' = Pop(modal)
    /\ UNCHANGED <<uipc, paths, releaseVars, formatVars, lockVars, runUi, runVars>>

\* The worlds of run r whose child process is running.
InFlight(r) == {k \in Slots : proc[r][k].st = "running"}

\* lines 848-851 and 206: the answer Yes; is_cancelling is set and
\* ConversionThread.stop sets stop_requested.
cancel_confirmed ==
    /\ OnTop("confirm cancellation")
    /\ modal' = Pop(modal)
    /\ is_cancelling' = TRUE
    /\ stop_requested' = [stop_requested EXCEPT ![conversion_thread] = TRUE]
    /\ inflightAtStop' = [inflightAtStop EXCEPT ![conversion_thread] =
                             InFlight(conversion_thread)]
    /\ uipc' = "stop"
    /\ UNCHANGED <<paths, releaseVars, formatVars, lockVars, current_world_index,
                   total_worlds, progress_widget, world_progress, overall_progress,
                   bars_alive, widgets_shown, conversion_thread, nruns, runs_left,
                   worlds_left, completions, queue, pc, argVars, idx, world_name,
                   current_process, successful, returncode, message, emitted,
                   readerVars, proc, written, pipe_held, choices, lines_left,
                   outdirs, detVars>>

\* Popen.terminate(): a running child is sent the termination signal; for a
\* child that has exited it does nothing.
terminate(p) ==
    IF p.st = "running"
    THEN [p EXCEPT !.terms = @ + 1, !.calls = @ + 1]
    ELSE [p EXCEPT !.calls = @ + 1]

\* A stop() that rolls back: it also removes the directory of the world whose
\* process it terminates.
stop_terminate_rollback ==
    /\ uipc = "stop"
    /\ LET r == conversion_thread IN
       /\ proc' = IF current_process[r] # 0
                  THEN [proc EXCEPT ![r][current_process[r]] = terminate(@)]
                  ELSE proc
       /\ outdirs' = IF current_process[r] # 0
                     THEN outdirs \ {proc[r][current_process[r]].out}
                     ELSE outdirs
    /\ uipc' = "wait"
    /\ UNCHANGED <<modal, paths, releaseVars, formatVars, lockVars, runUi, queue,
                   threadVars, emitted, readerVars, written, pipe_held, choices,
                   lines_left, inflightAtStop, detVars>>

\* lines 207-208: ConversionThread.stop terminates the process current_process
\* refers to, if it refers to one.
stop_terminate ==
    /\ uipc = "stop"
    /\ LET r == conversion_thread IN
       proc' = IF current_process[r] # 0
               THEN [proc EXCEPT ![r][current_process[r]] = terminate(@)]
               ELSE proc
    /\ uipc' = "wait"
    /\ UNCHANGED <<modal, paths, releaseVars, formatVars, lockVars, runUi, queue,
                   threadVars, emitted, readerVars, written, pipe_held, choices,
                   lines_left, outdirs, inflightAtStop, detVars>>

\* The level of the event loop the main thread runs, or from which the
\* handler it is in was called: 1 the application's, one more for every
\* modal window that is open.
LoopLevel == Len(modal) + 1

\* lines 888-912.  run is not an argument of the handler: it names, for
\* completions, the run the call is about; pending are the events that wait
\* in the queue.  deleteLater() (line 892) posts the deferred delete of the
\* progress widget after them; setParent(None) (line 891) has taken the widget
\* out of the window.
on_conversion_completed(run, total_successful, cancelled, pending) ==
    /\ queue' = pending \o (IF progress_widget
                            THEN <<deferred_delete(nruns, LoopLevel)>> ELSE <<>>)
    /\ widgets_shown' = IF progress_widget THEN widgets_shown \ {nruns}
                        ELSE widgets_shown
    /\ progress_widget' = FALSE
    /\ convert_button' = TRUE
    /\ set_controls_enabled(TRUE)
    /\ is_cancelling' = FALSE
    /\ status_label' = IF cancelled THEN "Conversion cancelled"
                       ELSE IF total_successful > 0 THEN "Conversion complete"
                       ELSE "No worlds converted successfully"
    /\ completions' = Append(completions,
                             [run |-> run, total |-> total_successful,
                              cancelled |-> cancelled])

\* QThread.wait(1000) returns: the thread has finished, or the second has
\* passed with the worker wherever it is (the result is not looked at).
WaitReturns(r) ==
    \/ ~isRunning(r)
    \/ isRunning(r)

\* lines 852-853: wait(1000) returns, then on_conversion_completed(0, cancelled=True).
cancel_finish ==
    /\ uipc = "wait"
    /\ WaitReturns(conversion_thread)
    /\ on_conversion_completed(conversion_thread, 0, TRUE, queue)
    /\ uipc' = "idle"
    /\ UNCHANGED <<modal, paths, selected_version, fetchers, download_threads,
                   formatVars, current_world_index, total_worlds, world_progress,
                   overall_progress, bars_alive, conversion_thread, nruns, runs_left,
                   worlds_left, threadVars, emitted, readerVars, envVars, detVars>>

\* The main thread runs an event loop (the application's, or that of a
\* modal window that is open) and an event of the kind is at the head of its
\* queue.
Pending(sig) ==
    /\ InEventLoop
    /\ queue # <<>>
    /\ Head(queue).sig = sig

\* The event is taken from the queue and its slot is called.
Delivered(sig) ==
    /\ Pending(sig)
    /\ queue' = Tail(queue)

\* The deferred delete of a progress widget is at the head of the queue.  It
\* is handled when control is back in the event loop from which deleteLater()
\* was called, and posted again, behind the others, in a loop inside that one;
\* with the widget its progress bars are deleted.
deferred_delete_event ==
    /\ Pending("deferred_delete")
    /\ IF Head(queue).value >= LoopLevel
       THEN /\ queue' = Tail(queue)
            /\ bars_alive' = IF Head(queue).run = nruns THEN FALSE ELSE bars_alive
       ELSE /\ queue' = Append(Tail(queue), Head(queue))
            /\ UNCHANGED bars_alive
    /\ UNCHANGED <<uipc, modal, paths, releaseVars, formatVars, lockVars,
                   is_cancelling, current_world_index, total_worlds, progress_widget,
                   world_progress, overall_progress, widgets_shown, conversion_thread,
                   nruns, runs_left, worlds_left, completions, threadVars, emitted,
                   readerVars, envVars, detVars>>

\* QProgressBar.setValue(value) of a bar whose range is 0..100 (lines 775,
\* 784) and whose value is old: a value outside the range is ignored.
setValue(old, value) == IF value \in 0..100 THEN value ELSE old

\* line 868: int((self.current_world_index * 100 + percentage) / self.total_worlds)
overall(index, percentage, total) == (index * 100 + percentage) \div total

\* lines 855-874: update_conversion_progress(world_name, percentage).  The
\* handler returns at once while is_cancelling is set or before the first run
\* (no attribute world_progress); setValue of a deleted bar raises the
\* RuntimeError it catches.
update_conversion_progress ==
    /\ Delivered("progress_updated")
    /\ LET percentage == Head(queue).value IN
       IF is_cancelling \/ world_progress < 0 \/ ~bars_alive
       THEN UNCHANGED <<world_progress, overall_progress, status_label>>
       ELSE /\ world_progress' = setValue(world_progress, percentage)
            /\ overall_progress' =
                  IF total_worlds > 0
                  THEN setValue(overall_progress,
                                overall(current_world_index, percentage, total_worlds))
                  ELSE overall_progress
            /\ status_label' = "Converting"
    /\ UNCHANGED <<uipc, modal, paths, releaseVars, formatVars, convert_button,
                   controls_enabled, is_cancelling, current_world_index, total_worlds,
                   progress_widget, bars_alive, widgets_shown, conversion_thread,
                   nruns, runs_left, worlds_left, completions, threadVars, emitted,
                   readerVars, envVars, detVars>>

\* lines 876-886: on_world_completed(world_name, success, message)
on_world_completed ==
    /\ Delivered("world_completed")
    /\ current_world_index' = IF is_cancelling THEN current_world_index
                              ELSE current_world_index + 1
    /\ UNCHANGED <<uipc, modal, paths, releaseVars, formatVars, lockVars,
                   is_cancelling, total_worlds, progress_widget, world_progress,
                   overall_progress, bars_alive, widgets_shown, conversion_thread,
                   nruns, runs_left, worlds_left, completions, threadVars, emitted,
                   readerVars, envVars, detVars>>

\* The conversion_completed signal reaches on_conversion_completed, with
\* cancelled at its default False.
on_conversion_completed_signal ==
    /\ Pending("conversion_completed")
    /\ on_conversion_completed(Head(queue).run, Head(queue).value, FALSE, Tail(queue))
    /\ UNCHANGED <<uipc, modal, paths, selected_version, fetchers, download_threads,
                   formatVars, current_world_index, total_worlds, world_progress,
                   overall_progress, bars_alive, conversion_thread, nruns, runs_left,
                   worlds_left, threadVars, emitted, readerVars, envVars, detVars>>

\* lines 1040-1044: update_status_list(message), the slot of log_message.
update_status_list ==
    /\ Delivered("log_message")
    /\ UNCHANGED <<uiVars, threadVars, emitted, readerVars, envVars, detVars>>

\* ---------------------------------------------- is_minecraft_world alone
\* is_minecraft_world is called on a directory.
Detect ==
    /\ detected = "none"
    /\ detected' = IF is_minecraft_world(directory) THEN "world" ELSE "not a world"
    /\ UNCHANGED <<uiVars, queue, threadVars, emitted, readerVars, envVars, directory>>

\* ------------------------------------------------------- specifications
ThreadStep(r) ==
    \/ NextIteration(r)
    \/ TestStop(r)
    \/ TestTargetDir(r)
    \/ MakeTargetDir(r)
    \/ SpawnProcess(r)
    \/ SpawnFailure(r)
    \/ StoreProcess(r)
    \/ ResetPercentage(r)
    \/ ResetErrors(r)
    \/ \E s \in Streams : StartReader(r, s)
    \/ WaitProcess(r)
    \/ JoinReaders(r)
    \/ CountSuccess(r)
    \/ BuildMessage(r)
    \/ ReportWorld(r)
    \/ EmitSummary(r)
    \/ RunReturns(r)

\* lines 186-187 where no join runs out of time: the converters write
\* nothing and leave no process behind, and the two readers of the world
\* have seen the end of their stream within the second.
JoinInTime(r) ==
    /\ pc[r] = "join"
    /\ \A s \in Streams : rd[r][idx[r]][s] = "eof"
    /\ JoinReaders(r)

\* The steps of run() where no join runs out of time.
ThreadStepInTime(r) ==
    \/ NextIteration(r)
    \/ TestStop(r)
    \/ TestTargetDir(r)
    \/ MakeTargetDir(r)
    \/ SpawnProcess(r)
    \/ SpawnFailure(r)
    \/ StoreProcess(r)
    \/ ResetPercentage(r)
    \/ ResetErrors(r)
    \/ \E s \in Streams : StartReader(r, s)
    \/ WaitProcess(r)
    \/ JoinInTime(r)
    \/ CountSuccess(r)
    \/ BuildMessage(r)
    \/ ReportWorld(r)
    \/ EmitSummary(r)
    \/ RunReturns(r)

\* What the user and the main thread do with the window and its runs, and
\* the child processes, which write nothing; the releases are not refreshed
\* and no jar is downloaded.
WindowStep ==
    \/ browse_for_jar
    \/ browse_for_jar_closed
    \/ browse_input_dir
    \/ browse_input_dir_closed
    \/ browse_output_dir
    \/ browse_output_dir_closed
    \/ start_conversion
    \/ warning_closed
    \/ cancel_conversion
    \/ cancel_declined
    \/ cancel_confirmed
    \/ stop_terminate
    \/ cancel_finish
    \/ on_world_completed
    \/ on_conversion_completed_signal
    \/ deferred_delete_event
    \/ \E r \in Runs, k \in Slots, s \in Streams : ReadEOF(r, k, s)
    \/ \E r \in Runs, k \in Slots : ProcessExit(r, k)

\* The window and its runs, with joins that do not run out of time.
NextWindow ==
    \/ WindowStep
    \/ \E r \in Runs : ThreadStepInTime(r)

\* The window and its runs with joins that may run out of time, where the
\* user may also choose a java, refresh the releases and download a jar.
Next ==
    \/ WindowStep
    \/ \E r \in Runs : ThreadStep(r)
    \/ browse_for_java
    \/ browse_for_java_closed
    \/ check_jar_and_fetch_releases
    \/ on_releases_fetched
    \/ on_fetch_error
    \/ download_selected_version
    \/ download_declined
    \/ download_confirmed
    \/ download_finished
    \/ download_error
    \/ message_box_closed

\* The user chooses the format and starts a run, which is never cancelled;
\* the main thread handles no event of the run.
NextStart ==
    \/ browse_for_jar
    \/ browse_for_jar_closed
    \/ browse_input_dir
    \/ browse_input_dir_closed
    \/ browse_output_dir
    \/ browse_output_dir_closed
    \/ select_format_version
    \/ edit_custom_format
    \/ update_format_versions
    \/ start_conversion
    \/ warning_closed
    \/ \E r \in Runs : ThreadStep(r)
    \/ \E r \in Runs, k \in Slots, s \in Streams : ReadEOF(r, k, s)
    \/ \E r \in Runs, k \in Slots : ProcessExit(r, k)

\* A run with the output of its child processes, as the worker and the reader
\* threads emit it: the main thread starts the run and handles no event.
NextOutput ==
    \/ browse_for_jar
    \/ browse_for_jar_closed
    \/ browse_input_dir
    \/ browse_input_dir_closed
    \/ browse_output_dir
    \/ browse_output_dir_closed
    \/ start_conversion
    \/ warning_closed
    \/ \E r \in Runs : ThreadStep(r)
    \/ \E r \in Runs, k \in Slots, s \in Streams : ReadLine(r, k, s) \/ ReadEOF(r, k, s)
    \/ \E r \in Runs, k \in Slots, s \in Streams : ProcessWrite(r, k, s)
    \/ \E r \in Runs, k \in Slots : ProcessExit(r, k)

\* The same with converters that write to the non-error stream only.
NextProgress ==
    \/ browse_for_jar
    \/ browse_for_jar_closed
    \/ browse_input_dir
    \/ browse_input_dir_closed
    \/ browse_output_dir
    \/ browse_output_dir_closed
    \/ start_conversion
    \/ warning_closed
    \/ \E r \in Runs : ThreadStep(r)
    \/ \E r \in Runs, k \in Slots, s \in Streams : ReadLine(r, k, s) \/ ReadEOF(r, k, s)
    \/ \E r \in Runs, k \in Slots : ProcessWrite(r, k, "stdout")
    \/ \E r \in Runs, k \in Slots : ProcessExit(r, k)

\* The same with converters that start processes of their own.
NextLinger ==
    \/ NextOutput
    \/ \E r \in Runs, k \in Slots : DescendantStart(r, k) \/ DescendantExit(r, k)

\* The same with converters that write more than a pipe holds.
NextStall ==
    \/ NextOutput
    \/ \E r \in Runs, k \in Slots, s \in Streams : ProcessStall(r, k, s)

\* A run whose converters may leave a process of their own behind, and the
\* window that handles the signals of the run.
NextAggregate ==
    \/ NextLinger
    \/ update_conversion_progress
    \/ on_world_completed
    \/ on_conversion_completed_signal
    \/ deferred_delete_event
    \/ update_status_list

\* A first run and the runs started after it (the convert button is enabled
\* again after a cancellation or a completion).
InitRestart ==
    /\ InitProgram
    /\ roots = Roots
    /\ outdirs \in Disks
    /\ runs_left = MaxRuns
    /\ worlds_left = MaxWorlds
    /\ lines_left = MaxLines
    /\ alphabet = Lines
    /\ directory = EmptyDir
    /\ detected = "none"

\* The user chooses the two directories before the first run.
choose_input_dir == nruns = 0 /\ browse_input_dir
choose_input_dir_closed == nruns = 0 /\ browse_input_dir_closed
choose_output_dir == nruns = 0 /\ browse_output_dir
choose_output_dir_closed == nruns = 0 /\ browse_output_dir_closed

\* The user clicks Cancel while another run may still be started.
cancel_then_restart == runs_left > 0 /\ cancel_conversion

\* The window and its runs, with joins that do not run out of time, the
\* directories chosen before the first run and the last run not cancelled.
NextRestart ==
    \/ choose_input_dir
    \/ choose_input_dir_closed
    \/ choose_output_dir
    \/ choose_output_dir_closed
    \/ start_conversion
    \/ warning_closed
    \/ cancel_then_restart
    \/ cancel_declined
    \/ cancel_confirmed
    \/ stop_terminate
    \/ cancel_finish
    \/ on_world_completed
    \/ on_conversion_completed_signal
    \/ deferred_delete_event
    \/ \E r \in Runs : ThreadStepInTime(r)
    \/ \E r \in Runs, k \in Slots, s \in Streams : ReadEOF(r, k, s)
    \/ \E r \in Runs, k \in Slots : ProcessExit(r, k)

\* The same where __init__ has found a jar.
InitJarFound ==
    /\ InitRestart
    /\ jar_path = TRUE
    /\ outdirs = {}

SpecRestart == InitJarFound /\ [][NextRestart]_vars

\* The user starts a run when the worker of the run before has finished.
start_next == (\A r \in Runs : ~isRunning(r)) /\ start_conversion

\* Runs one after the other, none of them cancelled, with joins that do not
\* run out of time; the user chooses the input directory before the first
\* run, and an output directory before the first run or between two runs.
NextRepeat ==
    \/ choose_input_dir
    \/ choose_input_dir_closed
    \/ browse_output_dir
    \/ browse_output_dir_closed
    \/ start_next
    \/ warning_closed
    \/ on_world_completed
    \/ on_conversion_completed_signal
    \/ deferred_delete_event
    \/ \E r \in Runs : ThreadStepInTime(r)
    \/ \E r \in Runs, k \in Slots, s \in Streams : ReadEOF(r, k, s)
    \/ \E r \in Runs, k \in Slots : ProcessExit(r, k)

\* A run and a second one; __init__ has found a jar, and the first output
\* root may hold a folder already.
InitRepeat ==
    /\ InitProgram
    /\ jar_path = TRUE
    /\ roots = Roots
    /\ outdirs \in Disks
    /\ runs_left = 2
    /\ worlds_left = MaxWorlds
    /\ lines_left = MaxLines
    /\ alphabet = Lines
    /\ directory = EmptyDir
    /\ detected = "none"

SpecRepeat == InitRepeat /\ [][NextRepeat]_vars

\* One run.
Init ==
    /\ InitProgram
    /\ roots = Roots
    /\ outdirs \in Disks
    /\ runs_left = 1
    /\ worlds_left = MaxWorlds
    /\ lines_left = MaxLines
    /\ alphabet = Lines
    /\ directory = EmptyDir
    /\ detected = "none"

\* One run of one world.
InitOneWorld ==
    /\ InitProgram
    /\ roots = {1}
    /\ outdirs = {}
    /\ runs_left = 1
    /\ worlds_left = 1
    /\ lines_left = MaxLines
    /\ alphabet = Lines
    /\ directory = EmptyDir
    /\ detected = "none"

\* One run of one world; the user may choose a java, refresh the releases
\* and download a jar.
Spec == InitOneWorld /\ [][Next]_vars

\* One run, with one directory to choose for the output, which is empty.
InitWindow ==
    /\ InitProgram
    /\ roots = {1}
    /\ outdirs = {}
    /\ runs_left = 1
    /\ worlds_left = MaxWorlds
    /\ lines_left = MaxLines
    /\ alphabet = Lines
    /\ directory = EmptyDir
    /\ detected = "none"

\* One run; the releases are not refreshed and no jar is downloaded.
SpecWindow == InitWindow /\ [][NextWindow]_vars

\* One run, never cancelled, and the user chooses the format before it.
SpecStart == Init /\ [][NextStart]_vars

\* One run of one world, never cancelled, with the output of its child
\* process.
SpecOutput == InitOneWorld /\ [][NextOutput]_vars

\* One run of one world, never cancelled, whose converter may write more than
\* a pipe holds.
SpecStall == InitOneWorld /\ [][NextStall]_vars

\* One run, never cancelled, whose converters may write lines with "Missing"
\* and may leave a process of their own behind.
InitLinger ==
    /\ InitProgram
    /\ roots = {1}
    /\ outdirs = {}
    /\ runs_left = 1
    /\ worlds_left = MaxWorlds
    /\ lines_left = MaxLines
    /\ alphabet = {LineMissing}
    /\ directory = EmptyDir
    /\ detected = "none"

SpecLinger == InitLinger /\ [][NextLinger]_vars

\* One run of one world, never cancelled, whose converter writes bare
\* percentage lines to the non-error stream.
InitProgress ==
    /\ InitProgram
    /\ roots = {1}
    /\ outdirs = {}
    /\ runs_left = 1
    /\ worlds_left = 1
    /\ lines_left = MaxPercentLines
    /\ alphabet = PercentLines
    /\ directory = EmptyDir
    /\ detected = "none"

SpecProgress == InitProgress /\ [][NextProgress]_vars

\* One run of one world, never cancelled, whose converter writes lines with a
\* percent sign in them.
InitPercentSign ==
    /\ InitProgram
    /\ roots = {1}
    /\ outdirs = {}
    /\ runs_left = 1
    /\ worlds_left = 1
    /\ lines_left = MaxLines
    /\ alphabet = PercentSignLines
    /\ directory = EmptyDir
    /\ detected = "none"

SpecPercentSign == InitPercentSign /\ [][NextOutput]_vars

\* One run of one world, never cancelled, whose converter writes the line 50%
\* and may leave a process of its own behind; the window handles its signals.
InitAggregate ==
    /\ InitProgram
    /\ roots = {1}
    /\ outdirs = {}
    /\ runs_left = 1
    /\ worlds_left = 1
    /\ lines_left = MaxLines
    /\ alphabet = {LinePercent}
    /\ directory = EmptyDir
    /\ detected = "none"

SpecAggregate == InitAggregate /\ [][NextAggregate]_vars

\* One run, never cancelled, whose converters write the lines 0.5% and 50%
\* and may leave a process of their own behind.
InitBaseline ==
    /\ InitProgram
    /\ roots = {1}
    /\ outdirs = {}
    /\ runs_left = 1
    /\ worlds_left = MaxWorlds
    /\ lines_left = MaxLines
    /\ alphabet = {<<"0.5", "%">>, LinePercent}
    /\ directory = EmptyDir
    /\ detected = "none"

SpecBaseline == InitBaseline /\ [][NextLinger]_vars

\* The worlds lists a ConversionThread may be given.
WorldLists == {ws \in SeqsUpTo(Slots, MaxWorlds) :
                 \A i, j \in 1..Len(ws) : i < j => ws[i] < ws[j]}

\* The format tokens a ConversionThread may be given.
Versions == {ListedVersion, <<"MyFormat">>}

\* ConversionThread(worlds, jar_path, output_dir, target_version, java_path,
\* add_suffix) is constructed (lines 93-102) and started, by a caller other
\* than the window.
ConstructThread ==
    /\ runs_left > 0
    /\ \E ws \in WorldLists, d \in Roots, v \in Versions, sfx \in BOOLEAN :
         LET r == nruns + 1 IN
         /\ worlds' = [worlds EXCEPT ![r] = ws]
         /\ output_dir' = [output_dir EXCEPT ![r] = d]
         /\ target_version' = [target_version EXCEPT ![r] = v]
         /\ add_suffix' = [add_suffix EXCEPT ![r] = sfx]
         /\ pc' = [pc EXCEPT ![r] = "loop"]
         /\ nruns' = r
         /\ runs_left' = runs_left - 1
    /\ UNCHANGED <<uipc, modal, paths, releaseVars, formatVars, lockVars,
                   is_cancelling, current_world_index, total_worlds, progress_widget,
                   world_progress, overall_progress, bars_alive, widgets_shown,
                   conversion_thread, worlds_left, completions, queue, idx,
                   world_name, stop_requested, current_process, successful,
                   returncode, message, emitted, readerVars, envVars, detVars>>

\* A ConversionThread by itself.
NextThread ==
    \/ ConstructThread
    \/ \E r \in Runs : ThreadStep(r)
    \/ \E r \in Runs, k \in Slots, s \in Streams : ReadEOF(r, k, s)
    \/ \E r \in Runs, k \in Slots : ProcessExit(r, k)

\* A ConversionThread by itself, with every argument it may be given.
SpecThread == Init /\ [][NextThread]_vars

\* is_minecraft_world on every directory.
InitDetect ==
    /\ InitProgram
    /\ roots = {1}
    /\ outdirs = {}
    /\ runs_left = MaxRuns
    /\ worlds_left = MaxWorlds
    /\ lines_left = MaxLines
    /\ alphabet = Lines
    /\ directory \in Directories
    /\ detected = "none"

SpecDetect == InitDetect /\ [][Detect]_vars

\* =============================================================== claims
\* The world_completed signals run r has emitted, in order.
Outcomes(r) == SelectSeq(emitted[r], LAMBDA e : e.sig = "world_completed")

\* The world_completed signals run r has emitted for the world at position k.
OutcomesOf(r, k) == SelectSeq(emitted[r],
                       LAMBDA e : e.sig = "world_completed" /\ e.world = worlds[r][k])

\* The conversion_completed signals run r has emitted.
Summaries(r) == SelectSeq(emitted[r], LAMBDA e : e.sig = "conversion_completed")

\* The calls of on_conversion_completed that are about run r.
CompletionsOf(r) == SelectSeq(completions, LAMBDA c : c.run = r)

\* Every world of run r had a child process and it exited with code 0.
AllExitedZero(r) ==
    \A k \in 1..Len(worlds[r]) : proc[r][k].st = "exited" /\ proc[r][k].code = 0

\* C1: a run whose converter processes all exit with code 0 and that is never
\* cancelled emits, by the time it is done, exactly one world_completed per
\* world, all with success, in the order of the list, then the summary with
\* successful = N; and every result the window derives from it is not cancelled
\* and carries N.
C1_AllSucceed ==
    \A r \in Runs :
        (pc[r] = "done" /\ ~stop_requested[r] /\ AllExitedZero(r)) =>
            /\ Len(Outcomes(r)) = Len(worlds[r])
            /\ \A k \in 1..Len(worlds[r]) :
                  /\ Outcomes(r)[k].world = worlds[r][k]
                  /\ Outcomes(r)[k].success
            /\ Summaries(r) = <<conversion_completed(r, Len(worlds[r]))>>
            /\ emitted[r][Len(emitted[r])].sig = "conversion_completed"
            /\ \A i \in 1..Len(CompletionsOf(r)) :
                  /\ ~CompletionsOf(r)[i].cancelled
                  /\ CompletionsOf(r)[i].total = Len(worlds[r])

\* C1 witness: a run of two worlds, both converted with exit code 0, never
\* cancelled, is done and the window has handled its summary.
C1_Witness ==
    \E r \in Runs :
        /\ pc[r] = "done" /\ ~stop_requested[r] /\ AllExitedZero(r)
        /\ Len(worlds[r]) = 2
        /\ Len(CompletionsOf(r)) = 1

\* C2: once cancel() has been called for a run, each result reported for that
\* run is cancelled=true, and there is one such report only: no later call of
\* on_conversion_completed reports the run again.
C2_CancelIsFinal ==
    [][\A r \in Runs :
          (/\ stop_requested[r]
           /\ Len(completions') > Len(completions)
           /\ completions'[Len(completions')].run = r)
          => /\ completions'[Len(completions')].cancelled
             /\ \A i \in 1..Len(completions) :
                   ~(completions[i].run = r /\ completions[i].cancelled)]_vars

\* C3: once stop_requested is set, no child process that had not been started
\* is started.
C3_NoSpawnAfterStop ==
    [][\A r \in Runs, k \in Slots :
          (stop_requested[r] /\ proc[r][k].st = "none") => proc'[r][k].st = "none"]_vars

\* stop() of run r has set the flag and has passed its terminate() statement.
StopDone(r) == stop_requested[r] /\ ~(uipc = "stop" /\ conversion_thread = r)

\* C4: no child process is sent more than one termination request, and a
\* child process that is running once stop() has been executed has been sent
\* one.
C4_TerminateInFlight ==
    \A r \in Runs, k \in Slots :
        /\ proc[r][k].terms <= 1
        /\ (StopDone(r) /\ proc[r][k].st = "running") => proc[r][k].terms = 1

\* C5: is_minecraft_world answers true exactly for a directory that holds
\* level.dat together with session.lock, or level.dat together with a
\* sub-directory db.
C5_WorldDetector ==
    detected # "none" =>
        ((detected = "world") <=>
            \/ ({"level.dat", "session.lock"} \subseteq listdir(directory))
            \/ ("level.dat" \in listdir(directory) /\ "db" \in listdir(directory)
                /\ isdir(directory, "db")))

\* The iteration of world k of run r ended in the handler of a failed Popen.
SpawnFailed(r, k) == idx[r] > k /\ proc[r][k].st = "none"

\* A reader of world k of run r has ended in an exception while it read from
\* the converter.
ReadFailed(r, k) == \E s \in Streams : rd[r][k][s] = "dead"

\* The statements of an iteration of run() that come after the test of
\* stop_requested.
PastStopTest == {"target_dir", "makedirs", "popen", "assign", "reset_percentage",
                 "reset_errors", "start_stdout", "start_stderr", "wait", "join",
                 "count", "message", "report", "crashed"}

\* The iteration of world j of run r went past the stop_requested test.
Attempted(r, j) ==
    \/ idx[r] > j
    \/ (idx[r] = j /\ pc[r] \in PastStopTest)

\* The loop of run r goes on and has not come to the stop_requested test of
\* world j yet.
NotYetReached(r, j) ==
    /\ pc[r] \notin {"summary", "return", "done", "crashed"}
    /\ \/ idx[r] < j
       \/ (idx[r] = j /\ pc[r] \in {"loop", "stop_test"})

\* World k of run r has exactly one outcome, a failed one, and every later
\* world is attempted, unless the loop has not reached it yet, the run was
\* cancelled, or the run ended at a world in between for another reason (the
\* directory of that world).
FailedAndLocal(r, k) ==
    /\ Len(OutcomesOf(r, k)) = 1
    /\ ~OutcomesOf(r, k)[1].success
    /\ \A j \in (k + 1)..Len(worlds[r]) :
          \/ Attempted(r, j)
          \/ NotYetReached(r, j)
          \/ stop_requested[r]
          \/ (pc[r] = "crashed" /\ k < idx[r] /\ idx[r] < j)

\* C6: a failure while spawning or communicating with the converter of a
\* world is confined to that world.  After every step, a world whose Popen
\* failed has exactly one outcome, a failed one, and the later worlds are
\* still attempted; and so has, after the step that reports it, a world one of
\* whose readers had failed by then.
C6_FailureIsLocal ==
    [][\A r \in Runs, k \in Slots :
          /\ (k <= Len(worlds'[r]) /\ SpawnFailed(r, k)') => FailedAndLocal(r, k)'
          /\ (/\ idx[r] = k /\ pc[r] = "report" /\ pc'[r] # "report"
              /\ ReadFailed(r, k)) => FailedAndLocal(r, k)']_vars

\* Run r has been started, can take no step of its own, and waits for nothing:
\* neither for its child process to exit nor for a reader to end.
Ended(r) ==
    /\ pc[r] # "unborn"
    /\ ~ENABLED ThreadStep(r)
    /\ ~(pc[r] = "wait" /\ proc[r][idx[r]].st = "running")
    /\ ~(pc[r] = "join" /\ \E s \in Streams : ~JoinReturns(r, idx[r], s))

\* C7: a run that was started does not end without having emitted its summary.
C7_RunEmitsSummary ==
    \A r \in Runs : Ended(r) => Summaries(r) # <<>>

\* C8: at most one converter child process is running.
C8_OneProcessInFlight ==
    Cardinality({rk \in Runs \X Slots : proc[rk[1]][rk[2]].st = "running"}) <= 1

\* C9: a world whose process was in flight when cancel() set the flag emits no
\* outcome.
C9_CancelledWorldHasNoOutcome ==
    \A r \in Runs : \A k \in inflightAtStop[r] : OutcomesOf(r, k) = <<>>

\* World k of run r has been reported after its child exited with code # 0.
FailedWorld(r, k) ==
    /\ k <= Len(worlds[r]) /\ idx[r] > k
    /\ proc[r][k].st = "exited" /\ proc[r][k].code # 0

\* C10: the outcome of a world that exited with a code # 0 is a
\* failure whose message holds the exit code and, as written, every line with
\* "Missing" the child wrote to stderr.
C10_MissingLineVerbatim ==
    \A r \in Runs, k \in Slots :
        FailedWorld(r, k) =>
            \A i \in 1..Len(written[r][k].stderr) :
                Contains(written[r][k].stderr[i], "Missing") =>
                    /\ Len(OutcomesOf(r, k)) = 1
                    /\ ~OutcomesOf(r, k)[1].success
                    /\ OutcomesOf(r, k)[1].msg.code = proc[r][k].code
                    /\ Contains(OutcomesOf(r, k)[1].msg.lines, written[r][k].stderr[i])

\* The values of the progress_updated signals run r has emitted for the world
\* at position k.
ProgressValues(r, k) ==
    LET evs == SelectSeq(emitted[r], LAMBDA e : e.sig = "progress_updated"
                                                /\ e.world = worlds[r][k])
    IN  [i \in 1..Len(evs) |-> evs[i].value]

\* The percentage of a bare percentage line, in tenths.
PercentTenths(line) == FloatTenths(RemovePercent(strip(line)))

\* The events the hysteresis asks for, for percentage lines in the order
\* written: a line has an event, with its value cut to an integer, when its
\* value is at least 1.0 (10 tenths) away from the value of the last line that
\* had one (0 before the first).
RECURSIVE ExpectedProgress(_, _)
ExpectedProgress(lines, last) ==
    IF lines = <<>> THEN <<>>
    ELSE LET v == PercentTenths(Head(lines))
             d == IF v >= last THEN v - last ELSE last - v
         IN  IF d >= 10 THEN <<v \div 10>> \o ExpectedProgress(Tail(lines), v)
             ELSE ExpectedProgress(Tail(lines), last)

\* The number of lines of the non-error stream of world k of run r its reader
\* is through with, as far as progress goes: those it has taken, but for one
\* it has not emitted the progress event of yet.
ProgressHandled(r, k) ==
    IF rd[r][k].stdout \in {"assign", "emit", "emit_call"} THEN nread[r][k].stdout - 1
    ELSE nread[r][k].stdout

\* C11: for a world whose converter writes bare percentage lines to the
\* non-error stream, the progress events emitted so far are those the
\* hysteresis asks for on the lines handled so far: one for a line exactly
\* when its value differs by at least 1.0 from the value of the last line that
\* had one (0 at the start of a world).
C11_ProgressHysteresis ==
    \A r \in Runs, k \in Slots :
        (k <= Len(worlds[r]) /\ proc[r][k].st # "none") =>
            ProgressValues(r, k) =
                ExpectedProgress(SubSeq(written[r][k].stdout, 1, ProgressHandled(r, k)), 0)

\* C11 witness: the converter wrote 10%, 10.4%, 11% to the non-error stream,
\* the reader has read the three lines and the events are 10 and 11.
C11_Witness ==
    \E r \in Runs, k \in Slots :
        /\ k <= Len(worlds[r])
        /\ written[r][k].stdout = << <<"10", "%">>, <<"10.4", "%">>, <<"11", "%">> >>
        /\ nread[r][k].stdout = 3
        /\ rd[r][k].stdout \in {"reading", "eof"}
        /\ ProgressValues(r, k) = <<10, 11>>

\* C12: the events of a world come before its outcome, under its name, and in
\* the order of the lines: whenever the reader of a stream of world k emits
\* an event for a line, the line is the one it has taken last or takes in the
\* step, the next one of that stream, world k has no outcome yet, and the
\* event carries the name of world k.
C12_EventOrderTotal ==
    [][\A r \in Runs, k \in Slots, s \in Streams :
          (/\ emitted'[r] # emitted[r]
           /\ \/ nread'[r][k][s] # nread[r][k][s]
              \/ rd'[r][k][s] # rd[r][k][s]) =>
             /\ nread'[r][k][s] = IF rd[r][k][s] = "reading" THEN nread[r][k][s] + 1
                                  ELSE nread[r][k][s]
             /\ OutcomesOf(r, k) = <<>>
             /\ emitted'[r][Len(emitted'[r])].world = worlds[r][k]]_vars

\* The texts of the log_message signals run r has emitted under the name of
\* the world at position k.
LogTexts(r, k) ==
    LET evs == SelectSeq(emitted[r], LAMBDA e : e.sig = "log_message"
                                                /\ e.world = worlds[r][k])
    IN  [i \in 1..Len(evs) |-> evs[i].msg.lines[1]]

\* A bare percentage line: a number and the percent sign, nothing else.
IsBarePercentage(line) ==
    /\ Len(strip(line)) = 2
    /\ strip(line)[1] \in Numbers
    /\ strip(line)[2] = "%"

\* The line, written to stream s, is one the log has to show.
HasLogEvent(line, s) ==
    strip(line) # <<>> /\ (s = "stderr" \/ ~IsBarePercentage(line))

\* The lines among those written to stream s by world k of run r that the log
\* has to show.
LinesToLog(r, k, s) == SelectSeq(written[r][k][s], LAMBDA l : HasLogEvent(l, s))

\* World k of run r has been reported after its child exited.
ReportedWorld(r, k) ==
    /\ k <= Len(worlds[r]) /\ idx[r] > k
    /\ proc[r][k].st = "exited"

\* C13: once a world is reported, the log holds one event for each line its
\* converter wrote that is not empty and is from the error stream or is not a
\* bare percentage line, with the text of the line (white space around it
\* aside), and no event for any other line.
C13_LogEveryLine ==
    \A r \in Runs, k \in Slots :
        ReportedWorld(r, k) =>
            /\ Len(LogTexts(r, k)) =
                    Len(LinesToLog(r, k, "stdout")) + Len(LinesToLog(r, k, "stderr"))
            /\ \A s \in Streams : \A i \in 1..Len(LinesToLog(r, k, s)) :
                  \E j \in 1..Len(LogTexts(r, k)) :
                      LogTexts(r, k)[j] = strip(LinesToLog(r, k, s)[i])

\* The lines with "Missing" among those written to stream s by world k of
\* run r.
MissingLines(r, k, s) ==
    SelectSeq(written[r][k][s], LAMBDA l : Contains(l, "Missing"))

\* C14: once a world is reported, its outcome reflects every line with
\* "Missing" its converter wrote, to either stream and whatever else the line
\* holds: the warning count of a success is their number, and the message of
\* a failure holds as many lines as there are and each of them (white space
\* around it aside).
C14_EveryMissingLineCounts ==
    \A r \in Runs, k \in Slots :
        ReportedWorld(r, k) =>
            LET n == Len(MissingLines(r, k, "stdout")) + Len(MissingLines(r, k, "stderr"))
                m == OutcomesOf(r, k)[1].msg
            IN  /\ Len(OutcomesOf(r, k)) = 1
                /\ OutcomesOf(r, k)[1].success => m.warnings = n
                /\ (~OutcomesOf(r, k)[1].success /\ n > 0) =>
                      /\ Len(m.lines) = n
                      /\ \A s \in Streams : \A i \in 1..Len(MissingLines(r, k, s)) :
                            Contains(m.lines, strip(MissingLines(r, k, s)[i]))

\* The lines of stream s of world k of run r its reader is through with, as
\* far as the list errors goes: those it has taken, but for one it has not
\* come to line 170 with yet.
RecordingHandled(r, k, s) ==
    IF rd[r][k][s] \in {"assign", "emit", "emit_call", "append"}
    THEN nread[r][k][s] - 1
    ELSE nread[r][k][s]

\* The lines with "Missing" the reader of stream s of world k of run r has
\* seen: those it has kept for the outcome message, as it kept them.
MissingSeenOn(r, k, s) ==
    LET handled == SubSeq(written[r][k][s], 1, RecordingHandled(r, k, s))
        kept == SelectSeq(handled, LAMBDA l : IsRecorded(strip(l), s = "stderr"))
    IN  [i \in 1..Len(kept) |-> strip(kept[i])]

\* The lines with "Missing" seen for world k of run r.
MissingSeen(r, k) == MissingSeenOn(r, k, "stdout") \o MissingSeenOn(r, k, "stderr")

\* C15: for a world whose converter was spawned and exited and whose readers
\* have not failed, the message built for the outcome goes by the exit code
\* and the "Missing" lines seen for the world by then: on code 0 it says
\* "Conversion successful", with a warning count (the suffix) exactly if at
\* least one such line was seen; on another code it holds the exit code and the
\* lines seen, or "Unknown error" exactly if none was seen.  The outcome the
\* run then emits for the world carries that message and is a success exactly
\* if the exit code is 0.
C15_OutcomeFromExitCode ==
    [][\A r \in Runs :
          LET k == idx[r]
              code == proc[r][k].code
              seen == MissingSeen(r, k)
          IN  /\ (pc[r] = "message" /\ pc'[r] # "message" /\ ~ReadFailed(r, k)) =>
                    LET m == message'[r] IN
                    /\ (code = 0) =>
                          /\ m.text = "Conversion successful"
                          /\ (m.warnings > 0) <=> (seen # <<>>)
                          /\ m.lines = <<>>
                    /\ (code # 0) =>
                          /\ m.text = "Failed with exit code"
                          /\ m.code = code
                          /\ (m.lines = <<UnknownError>>) <=> (seen = <<>>)
                          /\ seen # <<>> =>
                                /\ Len(m.lines) = Len(seen)
                                /\ \A i \in 1..Len(seen) : Contains(m.lines, seen[i])
              /\ (pc[r] = "report" /\ pc'[r] # "report") =>
                    LET e == emitted'[r][Len(emitted'[r])] IN
                    /\ Len(emitted'[r]) = Len(emitted[r]) + 1
                    /\ e.sig = "world_completed"
                    /\ e.world = worlds[r][k]
                    /\ e.success <=> (code = 0)
                    /\ e.msg = message[r]]_vars

\* The format token in lower case, for the tokens a run may be given.
LowerCased(version) ==
    IF version = <<"JAVA_1_21_5">> THEN <<"java_1_21_5">>
    ELSE IF version = <<"MyFormat">> THEN <<"myformat">>
    ELSE version

\* C16: the directory a converter is given with -o is there, under the output
\* root the run was constructed with, and it is the
\* name of the world, with nothing after it when add_suffix is false,
\* whatever the target format, and followed by "_" and the format token in
\* lower case when add_suffix is true.
C16_OutputDirName ==
    \A r \in Runs, k \in Slots :
        proc[r][k].st # "none" =>
            /\ proc[r][k].out \in outdirs
            /\ proc[r][k].out.root = output_dir[r]
            /\ proc[r][k].out.name = worlds[r][k]
            /\ ~add_suffix[r] => proc[r][k].out.suffix = <<>>
            /\ add_suffix[r] =>
                  proc[r][k].out.suffix = <<"_">> \o LowerCased(target_version[r])

\* C16 witness: a run constructed with add_suffix true and the format
\* JAVA_1_21_5 has spawned the converter of a world, with the directory
\* <name>_java_1_21_5.
C16_Witness ==
    \E r \in Runs, k \in Slots :
        /\ proc[r][k].st # "none" /\ add_suffix[r]
        /\ target_version[r] = <<"JAVA_1_21_5">>
        /\ proc[r][k].out = [root |-> output_dir[r], name |-> worlds[r][k],
                             suffix |-> <<"_", "java_1_21_5">>]

\* One of the two warnings of start_conversion about an input directory
\* without worlds is open.
NoWorldsWarning ==
    \E i \in DOMAIN modal : modal[i] \in {"no directories", "no valid worlds"}

\* C17: a batch with an empty list of worlds is never started.  No run has an
\* empty list; and the click that finds no world opens a warning at once,
\* creates no run and spawns no process.
C17_EmptyWorldListFailsFast ==
    [][/\ \A r \in Runs : pc'[r] # "unborn" => worlds'[r] # <<>>
       /\ (~NoWorldsWarning /\ NoWorldsWarning') =>
             /\ (AtWindow \/ OnTop("java unknown"))
             /\ uipc' = "idle"
             /\ UNCHANGED <<nruns, conversion_thread, progress_widget, queue, threadVars,
                            emitted, readerVars, envVars>>]_vars

\* C17 witness: the input directory holds sub-directories but no world; the
\* warning is open, no run exists and no process was spawned.
C17_Witness ==
    /\ uipc = "idle" /\ modal = <<"no valid worlds">>
    /\ nruns = 0
    /\ \A r \in Runs : pc[r] = "unborn" /\ \A k \in Slots : proc[r][k].st = "none"

\* The format token as the user chose it: the selected item, or the text of
\* the custom field when the item is "Custom".
TokenAsTyped == IF format_version = Custom THEN custom_format ELSE format_version

\* The same with the white space around a custom text removed.
TokenTrimmed == IF format_version = Custom THEN strip(custom_format) ELSE format_version

\* The click on the convert button fails on the format token: a warning
\* about the format opens and nothing else changes, so that no control is
\* locked, no run created and no process spawned.
FailsOnFormat ==
    /\ nruns' = nruns
    /\ (AtWindow /\ modal' # <<>> /\ Top(modal') \in StartBoxes) =>
          /\ Top(modal') \in {"enter a custom format version", "select a format version"}
          /\ UNCHANGED <<uipc, paths, releaseVars, formatVars, lockVars, runUi, queue,
                         threadVars, emitted, readerVars, envVars>>

\* C18 as stated: with an empty format token the click fails on the format;
\* any other token is handed to the run as it was typed, and the run passes
\* it as -f to every converter.
C18_FormatTokenUnchanged ==
    [][/\ TokenAsTyped = <<>> => FailsOnFormat
       /\ \A r \in Runs : (pc[r] = "unborn" /\ pc'[r] # "unborn") =>
             target_version'[r] = TokenAsTyped
       /\ \A r \in Runs, k \in Slots : proc'[r][k].st # "none" =>
             proc'[r][k].fmt = target_version'[r]]_vars

\* C18 amended: the same for the token with the white space around a custom
\* text removed: a token that is empty then fails on the format, any other is
\* handed to the run and passed as -f in that form.
C18_FormatTokenTrimmed ==
    [][/\ TokenTrimmed = <<>> => FailsOnFormat
       /\ \A r \in Runs : (pc[r] = "unborn" /\ pc'[r] # "unborn") =>
             (target_version'[r] = TokenTrimmed /\ TokenTrimmed # <<>>)
       /\ \A r \in Runs, k \in Slots : proc'[r][k].st # "none" =>
             proc'[r][k].fmt = target_version'[r]]_vars

\* C18 witness: the user typed " MyFormat " into the custom field, and a
\* converter has been spawned with -f MyFormat.
C18_Witness ==
    \E r \in Runs, k \in Slots :
        /\ format_version = Custom /\ custom_format = <<" ", "MyFormat", " ">>
        /\ proc[r][k].st # "none" /\ proc[r][k].fmt = <<"MyFormat">>

\* The warning about an empty custom format is open and nothing is locked.
C18_WitnessEmpty ==
    /\ uipc = "idle" /\ modal = <<"enter a custom format version">>
    /\ controls_enabled /\ nruns = 0

\* The directory of the world the loop of run r is at.
TargetDirOf(r) ==
    [root |-> output_dir[r], name |-> worlds[r][idx[r]],
     suffix |-> IF add_suffix[r] THEN <<"_">> \o LowerCased(target_version[r]) ELSE <<>>]

\* C19: the conversion step of a world whose output directory exists already
\* does not fail on it: from the test of the directory the run goes on to
\* spawn the converter, and it comes to os.makedirs only for a directory that
\* is not there; and no step removes a directory.
C19_MakeDirIdempotent ==
    [][/\ outdirs \subseteq outdirs'
       /\ \A r \in Runs :
             /\ (/\ pc[r] = "target_dir" /\ pc'[r] # "target_dir"
                 /\ TargetDirOf(r) \in outdirs)
                => pc'[r] = "popen"
             /\ pc[r] = "makedirs" => TargetDirOf(r) \notin outdirs]_vars

\* C19 witness: a second run is about to spawn the converter of a world that
\* the first run has converted before, into the same directory.
C19_Witness ==
    \E r1, r2 \in Runs :
        /\ r1 < r2
        /\ idx[r1] > 1 /\ proc[r1][1].st = "exited"
        /\ pc[r2] = "popen" /\ idx[r2] = 1
        /\ worlds[r2][1] = worlds[r1][1]
        /\ proc[r1][1].out = TargetDirOf(r2)
        /\ TargetDirOf(r2) \in outdirs

\* C20: in one run no world has more than one converter process spawned for
\* it or more than one outcome, whatever the exit code or the failure.
C20_AttemptedOnce ==
    \A r \in Runs, k \in Slots :
        /\ proc[r][k].spawns <= 1
        /\ k <= Len(worlds[r]) => Len(OutcomesOf(r, k)) <= 1

\* C20 witness: a run of two worlds is done; the converter of the first exited
\* with code 1, and each world had one converter process.
C20_Witness ==
    \E r \in Runs :
        /\ pc[r] = "done" /\ Len(worlds[r]) = 2
        /\ proc[r][1].st = "exited" /\ proc[r][1].code = 1 /\ proc[r][1].spawns = 1
        /\ proc[r][2].st = "exited" /\ proc[r][2].spawns = 1
        /\ Len(Outcomes(r)) = 2

\* The main thread is in cancel_conversion (lines 837-853) or in
\* ConversionThread.stop (lines 204-208) and takes a step of it.
CancelStep ==
    \/ (AtWindow /\ modal' = <<"confirm cancellation">>)
    \/ (OnTop("confirm cancellation") /\ modal' # modal)
    \/ (uipc \in {"stop", "wait"} /\ uipc' # uipc)

\* C21: cancellation leaves the directories under the output root as they
\* are: no step of cancel_conversion or of stop() adds or removes one, and the
\* directory of every world whose converter was started, the one in flight at
\* the cancellation included, is still there afterwards.
C21_CancelKeepsOutput ==
    [][/\ CancelStep => outdirs' = outdirs
       /\ \A r \in Runs, k \in Slots :
             (stop_requested'[r] /\ proc'[r][k].st # "none") =>
                 proc'[r][k].out \in outdirs']_vars

\* C21 witness: a run was cancelled while the converter of a world was in
\* flight, cancel_conversion has returned, and the directory of that world is
\* there.
C21_Witness ==
    \E r \in Runs : \E k \in inflightAtStop[r] :
        /\ uipc = "idle" /\ modal = <<>>
        /\ \E i \in 1..Len(completions) : completions[i].run = r /\ completions[i].cancelled
        /\ proc[r][k].terms = 1
        /\ proc[r][k].out \in outdirs

\* C22: the process handle is there only while a child process is in flight:
\* a current_process that is not None refers to a child process that is
\* running.
C22_HandleOnlyInFlight ==
    \A r \in Runs :
        current_process[r] # 0 => proc[r][current_process[r]].st = "running"

\* C23: the current world index never exceeds the number of worlds of the run
\* the window shows, and it never goes down but where start_conversion begins
\* a new run, whatever the order of start, world_completed, cancel and restart,
\* signals of a run cancelled before included.
C23_IndexMonotonicBounded ==
    [][/\ current_world_index' <= total_worlds'
       /\ nruns' = nruns => current_world_index' >= current_world_index]_vars

\* C24: a world is reported, and the loop moves to the next world, only after
\* both of its readers have seen the end of their stream: at the step that
\* ends the joins of a world, no reader of that world is still reading.
C24_ReadersEndBeforeOutcome ==
    [][\A r \in Runs :
          (pc[r] = "join" /\ pc'[r] # "join") =>
              \A s \in Streams : rd[r][idx[r]][s] = "eof"]_vars

\* C25: a progress event is emitted only for a line of the non-error stream
\* that, stripped, is a number with the percent sign right after it: whenever
\* a reader emits a progress event for the line it has taken, the stream is
\* stdout and the line is a bare percentage.
C25_ProgressOnlyForPercentage ==
    [][\A r \in Runs, k \in Slots, s \in Streams :
          (/\ rd[r][k][s] = "emit_call" /\ rd'[r][k][s] # "emit_call"
           /\ Len(emitted'[r]) > Len(emitted[r])
           /\ emitted'[r][Len(emitted[r]) + 1].sig = "progress_updated")
          => /\ s = "stdout"
             /\ IsBarePercentage(written[r][k][s][nread[r][k][s]])]_vars

\* The converter of world k of run r is blocked in a write and run r waits
\* for it to exit.
Stalled(r, k) ==
    /\ pc[r] = "wait" /\ idx[r] = k
    /\ proc[r][k].st = "running" /\ proc[r][k].blocked

\* C26: a failure to read a stream of a world does not decide the outcome of
\* the world and does not stop the batch: the world has one outcome at most,
\* once it is reported it has exactly one, a success exactly if the exit code
\* is 0, and the run is not held at the world by the failure.
C26_ReadFailureIsLocal ==
    \A r \in Runs, k \in Slots :
        (k <= Len(worlds[r]) /\ \E s \in Streams : rd[r][k][s] = "dead") =>
            /\ Len(OutcomesOf(r, k)) <= 1
            /\ idx[r] > k =>
                  /\ Len(OutcomesOf(r, k)) = 1
                  /\ OutcomesOf(r, k)[1].success <=> (proc[r][k].code = 0)
            /\ ~Stalled(r, k)

\* The number of outcomes with success among the signals in evs.
SuccessCount(evs) ==
    Len(SelectSeq(evs, LAMBDA e : e.sig = "world_completed" /\ e.success))

\* C27 as stated: after every step of a run its counter successful is the
\* number of outcomes with success it has emitted so far and is not less than
\* before the step; the summary carries that number, which is at most the
\* number of worlds of the run.
C27_SuccessfulCounter ==
    [][\A r \in Runs :
          /\ successful'[r] >= successful[r]
          /\ successful'[r] = SuccessCount(emitted'[r])
          /\ \A i \in 1..Len(emitted'[r]) :
                emitted'[r][i].sig = "conversion_completed" =>
                    /\ emitted'[r][i].value = SuccessCount(SubSeq(emitted'[r], 1, i))
                    /\ emitted'[r][i].value <= Len(worlds'[r])]_vars

\* Run r has counted a world that exited with code 0 (line 190) and has not
\* emitted its outcome yet (line 194): 1, and 0 otherwise.
CountedAhead(r) ==
    IF pc[r] \in {"message", "report"} /\ returncode[r] = 0 THEN 1 ELSE 0

\* C27 amended: after every step of a run its counter successful is not less
\* than before the step and is the number of outcomes with success it has
\* emitted so far, but between the count of a successful world and the emit
\* of its outcome, where it is one more; the summary carries the number of
\* outcomes with success emitted before it, which is at most the number of
\* worlds of the run.
C27_SuccessfulCounterAhead ==
    [][\A r \in Runs :
          /\ successful'[r] >= successful[r]
          /\ successful'[r] = SuccessCount(emitted'[r]) + CountedAhead(r)'
          /\ \A i \in 1..Len(emitted'[r]) :
                emitted'[r][i].sig = "conversion_completed" =>
                    /\ emitted'[r][i].value = SuccessCount(SubSeq(emitted'[r], 1, i))
                    /\ emitted'[r][i].value <= Len(worlds'[r])]_vars

\* C27 witness: a run of two worlds is done; the first converter exited with
\* code 1, the second with code 0, and the summary carries 1.
C27_Witness ==
    \E r \in Runs :
        /\ pc[r] = "done" /\ Len(worlds[r]) = 2
        /\ proc[r][1].st = "exited" /\ proc[r][1].code = 1
        /\ proc[r][2].st = "exited" /\ proc[r][2].code = 0
        /\ successful[r] = 1
        /\ Summaries(r) = <<conversion_completed(r, 1)>>

\* C28: while the input controls and the convert button are enabled no worker
\* thread is running, and so no run is started while the worker of an earlier
\* run is alive.
C28_EnabledMeansNoWorker ==
    [][/\ (controls_enabled' /\ convert_button') =>
              \A r \in Runs : pc'[r] \in {"unborn", "done", "crashed"}
       /\ \A r \in Runs :
              (pc[r] = "unborn" /\ pc'[r] # "unborn") =>
                  \A q \in Runs \ {r} : ~isRunning(q)]_vars

\* C29: the overall progress the window computes (the value it hands to the
\* overall bar) when it handles a progress event with a percentage within
\* 0..100 is within 0..100.
C29_AggregateWithinRange ==
    [][(/\ queue # <<>>
        /\ Head(queue).sig = "progress_updated"
        /\ Head(queue).value \in 0..100
        /\ queue' = Tail(queue)
        /\ ~is_cancelling /\ bars_alive /\ total_worlds > 0)
       => overall(current_world_index, Head(queue).value, total_worlds) \in 0..100]_vars

\* C30: the value the hysteresis compares with is 0 again at the start of
\* every world: when the reader of the non-error stream of a world takes the
\* first line of that stream, a bare percentage, it goes on to emit a
\* progress event (the comparison of line 162 holds) exactly if the value of
\* the line is at least 1.0, whatever was emitted for the world before.
C30_BaselineResetPerWorld ==
    [][\A r \in Runs, k \in Slots :
          (/\ nread[r][k].stdout = 0 /\ nread'[r][k].stdout = 1
           /\ rd'[r][k].stdout # "dead"
           /\ IsBarePercentage(written[r][k].stdout[1]))
          => (rd'[r][k].stdout = "assign"
              <=> PercentTenths(written[r][k].stdout[1]) >= 10)]_vars

\* The summary of run r is the last signal the run has emitted, and every
\* world whose converter was started has its outcome.
SummaryIsLast(r) ==
    /\ emitted[r][Len(emitted[r])].sig = "conversion_completed"
    /\ \A k \in Slots : proc[r][k].st # "none" => Len(OutcomesOf(r, k)) = 1

\* C31: a run emits its summary exactly once, after the outcome of every
\* world that was started, and emits no outcome, progress or log event after
\* it: a run has one summary at most, a run that has ended has one, and a
\* summary that has been emitted is the last signal of the run.
C31_SummaryOnceAndLast ==
    \A r \in Runs :
        /\ Len(Summaries(r)) <= 1
        /\ Ended(r) => Len(Summaries(r)) = 1
        /\ Summaries(r) # <<>> => SummaryIsLast(r)

====
